---- MODULE Spec2Model ----
(***************************************************************************)
(* Hub control plane of the irrigation controller (crates/hub).            *)
(*                                                                         *)
(* The main task (select loop of main(), handle_valve_command,             *)
(* emergency_all_off, graceful shutdown) and the valve watchdog task are   *)
(* modelled at the granularity of their suspension points; the scheduler   *)
(* task (scheduler::run) is modelled with one step per zone evaluation.    *)
(*                                                                         *)
(* Time is discrete.  Instants are kept as ages (seconds elapsed since the *)
(* instant was taken); a time step adds the step to every age.  A time     *)
(* step is taken only when no task can run (computation is fast compared   *)
(* with the clock), so a task that is blocked forever lets time pass.      *)
(*                                                                         *)
(* Two specifications share the actions of the main task and the watchdog: *)
(*   Spec      valve commands with any zone and payload arrive at any      *)
(*             time (whoever published them, the scheduler included);      *)
(*             bus errors occur and database writes may fail;              *)
(*   SpecSched the scheduler task runs, its publishes travel over the bus  *)
(*             back to the main task, and a bounded number of commands     *)
(*             from other publishers arrive in between, within one UTC     *)
(*             day; the bus connection does not break and database writes  *)
(*             succeed.                                                    *)
(***************************************************************************)
EXTENDS Integers, Sequences, FiniteSets, TLC

\* ------------------------------------------------------------------------
\* Program constants
\* ------------------------------------------------------------------------
WATCHDOG_MARGIN_SEC == 30
WATCHDOG_INTERVAL_SEC == 5
\* pulse length the watchdog assumes for a zone without configuration
DEFAULT_PULSE_SEC == 60
MQTT_GRACE_PERIOD_SEC == 60
\* scheduler.rs
TICK_INTERVAL_SEC == 30

\* sleep at the end of the Err branch of the select loop
ERR_SLEEP_SEC == 2
\* main.rs, node heartbeat monitor
HEARTBEAT_CHECK_INTERVAL_SEC == 60
\* the sleep of the heartbeat monitor before its first check
HEARTBEAT_FIRST_CHECK_SEC == 120
\* exit status of a Rust process whose main thread panicked
PANIC_EXIT_CODE == 101
\* state.rs
MAX_EVENTS == 200
\* main.rs, handle_telemetry
MAX_TELEMETRY_PAYLOAD_BYTES == 4096
MAX_READINGS_PER_MESSAGE == 32
\* db.rs
SENSOR_FAILURE_MARGIN == 3000
\* config.rs: largest raw value of the converter
ADS1115_MAX == 32767

\* ------------------------------------------------------------------------
\* Bounds of the model
\* ------------------------------------------------------------------------
\* largest max_concurrent_valves a configuration is drawn with
MaxConcurrent == 1
\* max_pulses_per_day of the configured zones
MaxPulsesPerDay == 1
\* pulses counter value from which no counter read failure is injected
PulseBound == 2
\* open_sec is counted exactly up to max_open_sec_per_day plus this value and
\* kept there beyond
OpenSecSlack == 5
\* age (seconds) after which the clock is no longer advanced
MaxAge == 65
\* mqtt_error_count value at which no further bus error is injected
MaxErrCount == 2
\* valve commands published by the scheduler and not yet delivered
MaxBus == 2
\* valve commands of other publishers in a behaviour of SpecSched
MaxManual == 1

\* seconds a poll that is going to fail may stay pending (SpecGrace)
PollMaxSec == 1
\* seconds of an error streak that SpecGrace follows
GraceHorizon == 64
\* spawned tasks that end in a behaviour of SpecSup
MaxExits == 2
\* calls of the record_* functions that are followed
RingCalls == 3
\* readings of a telemetry message that are drawn freely
PrefixLen == 2
\* max_concurrent_valves of the configuration of SpecWatchdog
WdConcurrent == 2
\* seconds after midnight that SpecDay follows
DayHorizon == 10

\* seconds one step of the heartbeat clock takes (SpecHeartbeat)
HbStepSec == 30
\* value of NODE_STALE_TIMEOUT_MIN in the environment
NodeStaleTimeoutMin == 1

\* ------------------------------------------------------------------------
\* Configuration (rows of the zones table loaded at startup)
\* ------------------------------------------------------------------------
Zones == {"z1", "z2"}

\* zone ids of the counter rows: the configured zones and one that is not
ZoneIds == Zones \cup {"zx"}

\* zone ids the valve commands of a behaviour carry
CommandIds == Zones

ZoneCfg ==
  [z \in Zones |->
     [pulse_sec            |-> IF z = "z1" THEN 5 ELSE 30,
      max_open_sec_per_day |-> IF z = "z1" THEN 5 ELSE 30,
      max_pulses_per_day   |-> MaxPulsesPerDay,
      min_moisture         |-> 30,
      target_moisture      |-> 50,
      soak_min             |-> 1]]

Modes == {"auto", "monitor"}

Payloads == {"ON", "OFF", "junk"}

\* averaged moisture readings, in hundredths
Moistures == {20, 40, 60}

\* outcomes of a database read: a value, no row, an error
ReadResults == {"ok", "none", "err"}

\* age of the latest reading against stale_timeout_min
Freshness == {"fresh", "stale"}

PublishResults == {"ok", "err"}

\* what one zone evaluation of the scheduler meets: every read and the
\* publish succeed, or exactly one of them does not (a handler returns at
\* the first one that does not, so the later outcomes are not looked at)
Nominal(m) ==
  [latest |-> "ok", fresh |-> "fresh", counters |-> "ok", avg |-> "ok",
   moisture |-> m, pub |-> "ok"]

SchedInputs ==
  {Nominal(m) : m \in Moistures}
    \cup {[Nominal(20) EXCEPT !.latest = x] : x \in ReadResults \ {"ok"}}
    \cup {[Nominal(20) EXCEPT !.fresh = x] : x \in Freshness \ {"fresh"}}
    \cup {[Nominal(20) EXCEPT !.counters = "err"]}
    \cup {[Nominal(20) EXCEPT !.avg = x] : x \in ReadResults \ {"ok"}}
    \cup {[Nominal(20) EXCEPT !.pub = x] : x \in PublishResults \ {"ok"}}

\* lengths of the event ring when the calls that are followed begin
RingStart == {0, MAX_EVENTS - 2}

\* tasks main() spawns and watches in its select loop
CriticalTasks == {"watchdog", "scheduler"}

BestEffortTasks == {"web", "prune", "backup", "heartbeat"}

Tasks == CriticalTasks \cup BestEffortTasks

\* nodes that publish telemetry and status
NodeIds == {"n1", "n2"}

\* calibration end points, and raw values around them
CalPoints == {0, 12000, 26000, ADS1115_MAX}

RawInputs == {-3000, 0, 5000, 12000, 19000, 26000, 30000, 35767}

\* sensors table: n1/s1 with the wet end below the dry end, n1/s2 inverted
SensorMap ==
  [q \in {<<"n1", "s1">>, <<"n1", "s2">>} |->
     IF q[2] = "s1" THEN [raw_dry |-> 26000, raw_wet |-> 12000]
     ELSE [raw_dry |-> 12000, raw_wet |-> 26000]]

\* readings a telemetry message carries: raw values at and just beyond the
\* limits of both sensors, sensor ids configured and not
Readings ==
  [sensor_id : {"s1", "s2", "s9"}, raw : {8999, 9000, 19000, 29000, 29001}]

Filler == [sensor_id |-> "s1", raw |-> 19000]

\* payload.len()
PayloadSizes == {MAX_TELEMETRY_PAYLOAD_BYTES, MAX_TELEMETRY_PAYLOAD_BYTES + 1}

VARIABLES
  mode,                  \* OperationMode of the configuration
  max_concurrent_valves, \* cfg.max_concurrent_valves
  board,                 \* ValveBoard.zones : zone_id -> on
  valve_opened_at,       \* zone_id -> age of the Instant stored for it
  snap_on,               \* SystemState.zones[z].on
  mqtt_connected,        \* SystemState.mqtt_connected
  pulses,                \* zone_daily_counters.pulses of the current day
  open_sec,              \* zone_daily_counters.open_sec of the current day
  board_lock,            \* owner of the Mutex<ValveBoard>
  opened_lock,           \* owner of the Mutex<HashMap<String, Instant>>
  mpc,                   \* position of the main task
  hz,                    \* zone_id of the valve command being handled
  hdur,                  \* duration_secs of the OFF being handled
  counters_read,         \* arm taken on get_daily_counters: none, ok, err
  eao_ret,               \* where emergency_all_off returns to
  cmd_events,            \* events pushed while handling the current bus event
  cmd_watering,          \* watering_events rows inserted by the current command
  mqtt_first_error_at,   \* age of mqtt_first_error_at, or -1 for None
  mqtt_error_count,      \* mqtt_error_count
  streak_age,            \* history: age of the first poll error since the last
                         \* incoming packet other than Disconnect and the
                         \* last emergency_all_off of the Err branch, or -1
  wdpc,                  \* position of the watchdog task
  wd_due,                \* a watchdog ticker tick is due
  to_close,              \* to_close of the watchdog: zone_id -> elapsed_secs
  states,                \* scheduler: zone_id -> ZoneScheduleState
  ticker,                \* scheduler: seconds until its ticker fires
  todo,                  \* scheduler: zones the current tick has yet to visit
  base_active,           \* scheduler: base_active of the current tick
  started_this_tick,     \* scheduler: started_this_tick of the current tick
  sched_event,           \* scheduler: event recorded by its latest evaluation
  bus,                   \* publishes on valve/<z>/set on their way to the hub
  manual_left,           \* commands other publishers may still send (SpecSched)
  events,                \* SystemState.events, the ring buffer
  event_log,             \* history: every event ever pushed, in order
  cal_in,                \* arguments of a call of compute_moisture
  cal_out,               \* what the call returned, once it has
  tele_in,               \* arguments of a call of handle_telemetry
  tele_out,              \* rows inserted and events recorded by the call
  tasks,                 \* spawned tasks: running, finished, joined
  sleep_left,            \* seconds left of the sleep of the Err branch
  poll_sec,              \* seconds eventloop.poll() has been pending
  wd_wait,               \* seconds since the watchdog ticker fired (SpecGrace)
  wd_events,             \* events the watchdog recorded since its ticker fired
  shutdown,              \* history: what the graceful shutdown did after
                         \* emergency_all_off, with its outcome
  sig_pending,           \* SIGINT or SIGTERM was delivered (SpecSignal)
  yesterday_open_sec,    \* zone_daily_counters.open_sec of the day before
  midnight_age,          \* seconds since the day changed, -1 if it has not
                         \* (both followed in SpecDay only)
  nodes_seen,            \* SystemState.nodes: node_id -> age of last_seen
  warned_stale,          \* warned_stale of the heartbeat monitor
  hbpc,                  \* position of the heartbeat monitor
  hb_ticker,             \* seconds until its sleep or its ticker ends
  newly_stale,           \* newly_stale of the current check
  recovered,             \* recovered of the current check
  hb_events,             \* events the current check recorded
  hb_last,               \* history: latest event recorded about each node
  conn_out,              \* requests the handler of the current bus event gave
                         \* the bus client, each with its outcome
  vb,                    \* the ValveBoard whose calls are followed (SpecBoard)
  vb_call,               \* the latest call on it
  phys_open              \* history: seconds each valve has been on today
                         \* (followed in SpecOpen only)

vars == <<mode, max_concurrent_valves, board, valve_opened_at, snap_on,
          mqtt_connected, pulses, open_sec, board_lock, opened_lock,
          mpc, hz, hdur, counters_read, eao_ret, cmd_events, cmd_watering,
          mqtt_first_error_at, mqtt_error_count, streak_age, wdpc, wd_due,
          to_close,
          states, ticker, todo, base_active, started_this_tick, sched_event,
          bus, manual_left,
          events, event_log, cal_in, cal_out, tele_in, tele_out,
          tasks, sleep_left, poll_sec, wd_wait, wd_events, shutdown,
          sig_pending, yesterday_open_sec, midnight_age,
          nodes_seen, warned_stale, hbpc, hb_ticker, newly_stale, recovered,
          hb_events, hb_last, conn_out, vb, vb_call, phys_open>>

cfgVars == <<mode, max_concurrent_valves>>
dayVars == <<yesterday_open_sec, midnight_age>>
outVars == <<conn_out>>
vbVars == <<vb, vb_call>>
physVars == <<phys_open>>
hbVars == <<nodes_seen, warned_stale, hbpc, hb_ticker, newly_stale, recovered,
            hb_events, hb_last>>
valveVars == <<board, valve_opened_at, board_lock, opened_lock>>
dbVars == <<pulses, open_sec>>
mqttVars == <<mqtt_first_error_at, mqtt_error_count, streak_age>>
wdVars == <<wdpc, wd_due, to_close, wd_events>>
hVars == <<hz, hdur, counters_read, eao_ret>>
schedVars == <<states, ticker, todo, base_active, started_this_tick,
               sched_event, bus, manual_left>>
ringVars == <<events, event_log>>
calVars == <<cal_in, cal_out>>
teleVars == <<tele_in, tele_out>>
\* the components the valve path does not touch
libVars == <<ringVars, calVars, teleVars>>
supVars == <<tasks, shutdown, sig_pending>>
fineVars == <<sleep_left, poll_sec, wd_wait>>

\* ------------------------------------------------------------------------
\* Helpers
\* ------------------------------------------------------------------------
Min(a, b) == IF a < b THEN a ELSE b

\* HashMap::insert
MapInsert(m, k, v) == [x \in DOMAIN m \cup {k} |-> IF x = k THEN v ELSE m[x]]

\* HashMap::remove
MapRemove(m, k) == [x \in DOMAIN m \ {k} |-> m[x]]

\* ValveBoard::set : a logged no-op on an unknown zone_id
BoardSet(b, z, on) == IF z \in DOMAIN b THEN [b EXCEPT ![z] = on] ELSE b

\* ValveBoard::all_off
BoardAllOff(b) == [z \in DOMAIN b |-> FALSE]

\* SystemState::record_valve, the zones part
RecordValve(s, z, on) == IF z \in DOMAIN s THEN [s EXCEPT ![z] = on] ELSE s

\* SystemState::set_all_zones_off
SetAllZonesOff(s) == [z \in DOMAIN s |-> FALSE]

\* st.zones.values().filter(|z| z.on).count()
ActiveCount(s) == Cardinality({z \in DOMAIN s : s[z]})

\* value at which the open_sec counter of a zone is kept
OpenSecCap(z) ==
  (IF z \in Zones THEN ZoneCfg[z].max_open_sec_per_day ELSE 0) + OpenSecSlack

\* Db::add_pulse : ensure the row, then add
AddPulse(c, z, delta) == [c EXCEPT ![z] = c[z] + delta]

\* Db::add_open_seconds : ensure the row, then add
AddOpenSeconds(c, z, delta) == [c EXCEPT ![z] = Min(c[z] + delta, OpenSecCap(z))]

\* the shared RwLock is write-held by the watchdog while it closes valves
SharedFree == wdpc # "closing"

\* watchdog limit of a zone: pulse_sec + margin, 60 + margin if unconfigured
MaxSecs(z) ==
  IF z \in Zones THEN ZoneCfg[z].pulse_sec + WATCHDOG_MARGIN_SEC
  ELSE DEFAULT_PULSE_SEC + WATCHDOG_MARGIN_SEC

\* seconds by which one clock step advances every age
TickSec == WATCHDOG_INTERVAL_SEC

\* the daily cap of a zone and one pulse at its longest: pulse_sec, the
\* margin of the watchdog and one tick of the watchdog
PhysBound(z) ==
  ZoneCfg[z].max_open_sec_per_day + ZoneCfg[z].pulse_sec
    + WATCHDOG_MARGIN_SEC + WATCHDOG_INTERVAL_SEC

\* value beyond which the time a valve has been on is no longer told apart
PhysCap(z) == PhysBound(z) + TickSec

\* the process has neither returned from main() nor panicked in it
ProcessRuns == mpc \notin {"exited", "panicked"}

NoZones == [z \in {} |-> FALSE]

NoInstants == [z \in {} |-> 0]

\* ZoneScheduleState: since is kept as the age of the Instant, until as the
\* seconds left to it
Idle == [st |-> "Idle", t |-> 0]

Watering(since) == [st |-> "Watering", t |-> since]

Soaking(until) == [st |-> "Soaking", t |-> until]

\* ------------------------------------------------------------------------
\* Initial state: main() up to the select loop
\* ------------------------------------------------------------------------
HubInit ==
  /\ mode \in Modes
  /\ max_concurrent_valves \in
       IF mode = "auto" THEN 1..MaxConcurrent ELSE 0..MaxConcurrent
  /\ board = IF mode = "auto" THEN [z \in Zones |-> FALSE] ELSE NoZones
  /\ valve_opened_at = NoInstants
  /\ snap_on = IF mode = "auto" THEN [z \in Zones |-> FALSE] ELSE NoZones
  /\ mqtt_connected = FALSE
  /\ pulses = [z \in ZoneIds |-> 0]
  /\ open_sec = [z \in ZoneIds |-> 0]
  /\ board_lock = "free"
  /\ opened_lock = "free"
  /\ mpc = "select"
  /\ hz = "none"
  /\ hdur = 0
  /\ counters_read = "none"
  /\ eao_ret = "none"
  /\ cmd_events = <<>>
  /\ cmd_watering = <<>>
  /\ mqtt_first_error_at = -1
  /\ mqtt_error_count = 0
  /\ streak_age = -1
  /\ wdpc = IF mode = "auto" THEN "wait" ELSE "parked"
  /\ wd_due = FALSE
  /\ to_close = NoInstants
  /\ wd_events = <<>>
  /\ states = [z \in Zones |-> Idle]
  /\ ticker = TICK_INTERVAL_SEC
  /\ todo = {}
  /\ base_active = 0
  /\ started_this_tick = 0
  /\ sched_event = "none"
  /\ bus = <<>>
  /\ manual_left = MaxManual
  /\ tasks = [t \in Tasks |-> "running"]
  /\ shutdown = <<>>
  /\ sig_pending = FALSE
  /\ yesterday_open_sec = [z \in ZoneIds |-> 0]
  /\ midnight_age = -1
  /\ sleep_left = 0
  /\ poll_sec = 0
  /\ wd_wait = 0
  /\ nodes_seen = NoInstants
  /\ warned_stale = {}
  /\ hbpc = "sleep"
  /\ hb_ticker = HEARTBEAT_FIRST_CHECK_SEC
  /\ newly_stale = {}
  /\ recovered = {}
  /\ hb_events = <<>>
  /\ hb_last = [n \in NodeIds |-> "none"]
  /\ conn_out = <<>>
  /\ phys_open = NoInstants

\* no call of the library functions is being followed
RingInit == events = <<>> /\ event_log = <<>>

CalInit == cal_in = [raw |-> 0, raw_dry |-> 0, raw_wet |-> 0] /\ cal_out = <<>>

NoMessage ==
  [node_id |-> "none", bytes |-> 0, json |-> "ok", readings |-> <<>>,
   db |-> "ok"]

TeleInit == tele_in = NoMessage /\ tele_out = <<>>

NoCall == [op |-> "none"]

VbInit ==
  /\ vb = [build |-> "none", active_low |-> TRUE, cells |-> NoZones,
           dropped |-> FALSE]
  /\ vb_call = NoCall

Init == HubInit /\ VbInit /\ RingInit /\ CalInit /\ TeleInit

\* ------------------------------------------------------------------------
\* Main task: select loop, Ok branch
\* ------------------------------------------------------------------------
\* an Ok branch that leaves the error streak as it is
ClearStreakKeeps ==
  UNCHANGED <<mqtt_first_error_at, mqtt_error_count>>

\* any incoming packet other than Disconnect clears the error streak
ClearStreak ==
  IF mqtt_first_error_at # -1
    THEN /\ mqtt_first_error_at' = -1
         /\ mqtt_error_count' = 0
    ELSE UNCHANGED <<mqtt_first_error_at, mqtt_error_count>>

\* Publish on valve/<z>/set: handle_valve_command up to its first await
\* after the mode check and the payload parse
ValveCommand(z, p) ==
  /\ mpc = "select"
  /\ ClearStreak
  /\ streak_age' = -1
  /\ hz' = z
  /\ hdur' = 0
  /\ counters_read' = "none"
  /\ cmd_watering' = <<>>
  /\ IF mode = "monitor"
       THEN /\ SharedFree
            /\ cmd_events' = <<"error:monitor mode">>
            /\ mpc' = "ret"
       ELSE IF p = "junk"
         THEN /\ SharedFree
              /\ cmd_events' = <<"error:unknown valve command">>
              /\ mpc' = "ret"
         ELSE /\ cmd_events' = <<>>
              /\ mpc' = IF p = "ON" THEN "on_ceiling" ELSE "off_board"
  /\ UNCHANGED <<cfgVars, physVars, vbVars, hbVars, outVars, dayVars, libVars, supVars, fineVars, valveVars, snap_on, mqtt_connected, dbVars,
                 eao_ret, wdVars>>

\* a handler without the concurrent valve limit
OnCeilingNoLimit ==
  /\ mpc = "on_ceiling"
  /\ SharedFree
  /\ mpc' = "on_counters"
  /\ UNCHANGED <<schedVars, cfgVars, physVars, vbVars, hbVars, outVars, dayVars, libVars, supVars, fineVars, valveVars, snap_on, mqtt_connected,
                 dbVars, hVars, cmd_events, cmd_watering, mqttVars, wdVars>>

\* a handler that records the limit error and goes on to the daily limits
OnCeilingFallsThrough ==
  /\ mpc = "on_ceiling"
  /\ SharedFree
  /\ LET zone_already_on == hz \in DOMAIN snap_on /\ snap_on[hz]
         active == ActiveCount(snap_on)
     IN cmd_events' =
          IF ~zone_already_on /\ active >= max_concurrent_valves
            THEN Append(cmd_events, "error:valves already open")
            ELSE cmd_events
  /\ mpc' = "on_counters"
  /\ UNCHANGED <<schedVars, cfgVars, physVars, vbVars, hbVars, outVars, dayVars, libVars, supVars, fineVars, valveVars, snap_on, mqtt_connected,
                 dbVars, hVars, cmd_watering, mqttVars, wdVars>>

\* ON: concurrent valve limit
OnCeiling ==
  /\ mpc = "on_ceiling"
  /\ SharedFree
  /\ LET zone_already_on == hz \in DOMAIN snap_on /\ snap_on[hz]
         active == ActiveCount(snap_on)
     IN IF ~zone_already_on /\ active >= max_concurrent_valves
          THEN /\ cmd_events' = Append(cmd_events, "error:valves already open")
               /\ mpc' = "ret"
          ELSE /\ cmd_events' = cmd_events
               /\ mpc' = "on_counters"
  /\ UNCHANGED <<schedVars, cfgVars, physVars, vbVars, hbVars, outVars, dayVars, libVars, supVars, fineVars, valveVars, snap_on, mqtt_connected, dbVars,
                 hVars, cmd_watering, mqttVars, wdVars>>

\* a gate that does not compare pulses with max_pulses_per_day
DailyLimitNoPulseCap(z, read) ==
  IF read # "ok" THEN "none"
  ELSE IF open_sec[z] >= ZoneCfg[z].max_open_sec_per_day
    THEN "error:open today"
  ELSE "none"

\* a gate that refuses when the counters cannot be read
DailyLimitFailClosed(z, read) ==
  IF read # "ok" THEN "error:open today"
  ELSE IF pulses[z] >= ZoneCfg[z].max_pulses_per_day
    THEN "error:pulses today"
  ELSE IF open_sec[z] >= ZoneCfg[z].max_open_sec_per_day
    THEN "error:open today"
  ELSE "none"

\* ON: the error event of the daily limit that blocks zone z, or none; a
\* failed read of the counters blocks nothing
DailyLimit(z, read) ==
  IF read # "ok" THEN "none"
  ELSE IF pulses[z] >= ZoneCfg[z].max_pulses_per_day
    THEN "error:pulses today"
  ELSE IF open_sec[z] >= ZoneCfg[z].max_open_sec_per_day
    THEN "error:open today"
  ELSE "none"

\* ON: get_daily_counters and the daily limits of a configured zone
OnCounters ==
  /\ mpc = "on_counters"
  /\ IF hz \in Zones
       THEN \E read \in {"ok", "err"} :
              /\ read = "err" => pulses[hz] < PulseBound
              /\ counters_read' = read
              /\ IF DailyLimit(hz, read) # "none"
                   THEN /\ SharedFree
                        /\ cmd_events' =
                             Append(cmd_events, DailyLimit(hz, read))
                        /\ mpc' = "ret"
                   ELSE /\ cmd_events' = cmd_events
                        /\ mpc' = "on_lock_board"
       ELSE /\ counters_read' = "none"
            /\ cmd_events' = cmd_events
            /\ mpc' = "on_lock_board"
  /\ UNCHANGED <<schedVars, cfgVars, physVars, vbVars, hbVars, outVars, dayVars, libVars, supVars, fineVars, valveVars, snap_on, mqtt_connected,
                 dbVars, hz, hdur, eao_ret, cmd_watering, mqttVars, wdVars>>

\* ON: valves.lock().await
OnLockBoard ==
  /\ mpc = "on_lock_board"
  /\ board_lock = "free"
  /\ board_lock' = "main"
  /\ mpc' = "on_lock_opened"
  /\ UNCHANGED <<schedVars, cfgVars, physVars, vbVars, hbVars, outVars, dayVars, libVars, supVars, fineVars, board, valve_opened_at, opened_lock, snap_on,
                 mqtt_connected, dbVars, hVars, cmd_events, cmd_watering,
                 mqttVars, wdVars>>

\* an ON that drives the valve without an opened_at entry
OnOpenUnstamped ==
  /\ mpc = "on_lock_opened"
  /\ opened_lock = "free"
  /\ board' = BoardSet(board, hz, TRUE)
  /\ valve_opened_at' = valve_opened_at
  /\ board_lock' = "free"
  /\ mpc' = "on_add_pulse"
  /\ UNCHANGED <<schedVars, cfgVars, physVars, vbVars, hbVars, outVars, dayVars, libVars, supVars, fineVars, opened_lock, snap_on, mqtt_connected, dbVars,
                 hVars, cmd_events, cmd_watering, mqttVars, wdVars>>

\* ON: valve_opened_at.lock().await, drive the valve, stamp, drop both guards
OnOpen ==
  /\ mpc = "on_lock_opened"
  /\ opened_lock = "free"
  /\ board' = BoardSet(board, hz, TRUE)
  /\ valve_opened_at' = MapInsert(valve_opened_at, hz, 0)
  /\ board_lock' = "free"
  /\ mpc' = "on_add_pulse"
  /\ UNCHANGED <<schedVars, cfgVars, physVars, vbVars, hbVars, outVars, dayVars, libVars, supVars, fineVars, opened_lock, snap_on, mqtt_connected, dbVars,
                 hVars, cmd_events, cmd_watering, mqttVars, wdVars>>

\* ON: db.add_pulse(today, zone, 1) returns Ok
OnAddPulse ==
  /\ mpc = "on_add_pulse"
  /\ pulses' = AddPulse(pulses, hz, 1)
  /\ mpc' = "on_record"
  /\ UNCHANGED <<schedVars, cfgVars, physVars, vbVars, hbVars, outVars, dayVars, libVars, supVars, fineVars, valveVars, snap_on, mqtt_connected, open_sec,
                 hVars, cmd_events, cmd_watering, mqttVars, wdVars>>

\* ON: db.add_pulse returns Err, which is only logged
OnAddPulseFails ==
  /\ mpc = "on_add_pulse"
  /\ pulses' = pulses
  /\ mpc' = "on_record"
  /\ UNCHANGED <<schedVars, cfgVars, physVars, vbVars, hbVars, outVars, dayVars, libVars, supVars, fineVars, valveVars, snap_on, mqtt_connected, open_sec,
                 hVars, cmd_events, cmd_watering, mqttVars, wdVars>>

\* ON: st.record_valve(zone, true)
OnRecord ==
  /\ mpc = "on_record"
  /\ SharedFree
  /\ snap_on' = RecordValve(snap_on, hz, TRUE)
  /\ cmd_events' = Append(cmd_events, "valve:ON")
  /\ mpc' = "ret"
  /\ UNCHANGED <<schedVars, cfgVars, physVars, vbVars, hbVars, outVars, dayVars, libVars, supVars, fineVars, valveVars, mqtt_connected, dbVars, hVars,
                 cmd_watering, mqttVars, wdVars>>

\* OFF: valves.lock().await.set(zone, false)
OffBoard ==
  /\ mpc = "off_board"
  /\ board_lock = "free"
  /\ board' = BoardSet(board, hz, FALSE)
  /\ mpc' = "off_opened"
  /\ UNCHANGED <<schedVars, cfgVars, physVars, vbVars, hbVars, outVars, dayVars, libVars, supVars, fineVars, valve_opened_at, board_lock, opened_lock, snap_on,
                 mqtt_connected, dbVars, hVars, cmd_events, cmd_watering,
                 mqttVars, wdVars>>

\* OFF: take the opened_at entry, if any
OffOpened ==
  /\ mpc = "off_opened"
  /\ opened_lock = "free"
  /\ IF hz \in DOMAIN valve_opened_at
       THEN /\ hdur' = valve_opened_at[hz]
            /\ valve_opened_at' = MapRemove(valve_opened_at, hz)
            /\ mpc' = "off_account"
       ELSE /\ hdur' = hdur
            /\ valve_opened_at' = valve_opened_at
            /\ mpc' = "off_record"
  /\ UNCHANGED <<schedVars, cfgVars, physVars, vbVars, hbVars, outVars, dayVars, libVars, supVars, fineVars, board, board_lock, opened_lock, snap_on,
                 mqtt_connected, dbVars, hz, counters_read, eao_ret,
                 cmd_events, cmd_watering, mqttVars, wdVars>>

\* the row insert_watering_event writes for the OFF being handled
OffWateringEvent ==
  [zone_id |-> hz, duration |-> hdur, reason |-> "mqtt_command",
   result |-> "ok"]

\* OFF: add_open_seconds and insert_watering_event both return Ok
OffAccount ==
  /\ mpc = "off_account"
  /\ open_sec' = AddOpenSeconds(open_sec, hz, hdur)
  /\ cmd_watering' = <<OffWateringEvent>>
  /\ mpc' = "off_record"
  /\ UNCHANGED <<schedVars, cfgVars, physVars, vbVars, hbVars, outVars, dayVars, libVars, supVars, fineVars, valveVars, snap_on, mqtt_connected, pulses,
                 hVars, cmd_events, mqttVars, wdVars>>

\* OFF: add_open_seconds or insert_watering_event returns Err, which is only
\* logged
OffAccountFails ==
  /\ mpc = "off_account"
  /\ \E add_ok, insert_ok \in BOOLEAN :
       /\ ~(add_ok /\ insert_ok)
       /\ open_sec' = IF add_ok THEN AddOpenSeconds(open_sec, hz, hdur)
                      ELSE open_sec
       /\ cmd_watering' = IF insert_ok THEN <<OffWateringEvent>>
                          ELSE cmd_watering
  /\ mpc' = "off_record"
  /\ UNCHANGED <<schedVars, cfgVars, physVars, vbVars, hbVars, outVars, dayVars, libVars, supVars, fineVars, valveVars, snap_on, mqtt_connected, pulses,
                 hVars, cmd_events, mqttVars, wdVars>>

\* OFF: st.record_valve(zone, false)
OffRecord ==
  /\ mpc = "off_record"
  /\ SharedFree
  /\ snap_on' = RecordValve(snap_on, hz, FALSE)
  /\ cmd_events' = Append(cmd_events, "valve:OFF")
  /\ mpc' = "ret"
  /\ UNCHANGED <<schedVars, cfgVars, physVars, vbVars, hbVars, outVars, dayVars, libVars, supVars, fineVars, valveVars, mqtt_connected, dbVars, hVars,
                 cmd_watering, mqttVars, wdVars>>

\* client.subscribe(topic, QoS::AtLeastOnce)
Subscribe(topic) == [req |-> "subscribe", topic |-> topic]

\* client.publish("status/hub", QoS::AtLeastOnce, true, b"online")
PublishOnline ==
  [req |-> "publish", topic |-> "status/hub", payload |-> "online",
   retain |-> TRUE]

\* what the ConnAck arm asks of the client; an Err of a request is only
\* logged and the next request is made all the same
ConnAckRequests ==
  <<Subscribe("tele/+/reading"), Subscribe("valve/+/set"),
    Subscribe("status/node/+"), PublishOnline>>

\* a ConnAck arm that gives up at the first request that fails
ConnAckGivesUp ==
  /\ mpc = "select"
  /\ SharedFree
  /\ ClearStreak
  /\ streak_age' = -1
  /\ \E oks \in [1..4 -> BOOLEAN] :
       LET done == {i \in 1..4 : \A j \in 1..i : oks[j]}
       IN /\ conn_out' = SubSeq(ConnAckRequests, 1,
                                Min(Cardinality(done) + 1, 4))
          /\ mqtt_connected' = IF Cardinality(done) = 4 THEN TRUE
                               ELSE mqtt_connected
  /\ cmd_events' = <<"system:mqtt connected">>
  /\ mpc' = "ret"
  /\ UNCHANGED <<schedVars, cfgVars, physVars, vbVars, hbVars, dayVars, libVars, supVars, fineVars, valveVars, snap_on, dbVars, hVars, cmd_watering,
                 wdVars>>

\* ConnAck: re-subscribe, announce, mark connected
ConnAck ==
  /\ mpc = "select"
  /\ SharedFree
  /\ ClearStreak
  /\ streak_age' = -1
  /\ conn_out' = ConnAckRequests
  /\ mqtt_connected' = TRUE
  /\ cmd_events' = <<"system:mqtt connected">>
  /\ mpc' = "ret"
  /\ UNCHANGED <<schedVars, cfgVars, physVars, vbVars, hbVars, dayVars, libVars, supVars, fineVars, valveVars, snap_on, dbVars, hVars, cmd_watering,
                 wdVars>>

\* Disconnect packet: the only incoming packet that keeps the error streak
Disconnect ==
  /\ mpc = "select"
  /\ SharedFree
  /\ mqtt_connected' = FALSE
  /\ cmd_events' = <<"system:mqtt disconnected">>
  /\ mpc' = "ret"
  /\ UNCHANGED <<schedVars, cfgVars, physVars, vbVars, hbVars, outVars, dayVars, libVars, supVars, fineVars, valveVars, snap_on, dbVars, hVars, cmd_watering,
                 mqttVars, wdVars>>

\* any other incoming packet (acks, pings, telemetry, node status)
IncomingOther ==
  /\ mpc = "select"
  /\ ClearStreak
  /\ streak_age' = -1
  /\ cmd_events' = <<>>
  /\ UNCHANGED <<schedVars, cfgVars, physVars, vbVars, hbVars, outVars, dayVars, libVars, supVars, fineVars, valveVars, snap_on, mqtt_connected, dbVars,
                 mpc, hVars, cmd_watering, wdVars>>
\* end of a select! branch body: its locals are dropped and the loop polls
\* again
Return ==
  /\ mpc = "ret"
  /\ mpc' = "select"
  /\ hz' = "none"
  /\ hdur' = 0
  /\ counters_read' = "none"
  /\ eao_ret' = "none"
  /\ cmd_events' = <<>>
  /\ conn_out' = <<>>
  /\ cmd_watering' = <<>>
  /\ poll_sec' = 0
  /\ UNCHANGED <<schedVars, cfgVars, physVars, vbVars, hbVars, dayVars, libVars, supVars, sleep_left, wd_wait,
                 valveVars, snap_on, mqtt_connected, dbVars, mqttVars, wdVars>>

\* ------------------------------------------------------------------------
\* Main task: select loop, Err branch and emergency_all_off
\* ------------------------------------------------------------------------
\* eventloop.poll() returned Err: count, start or continue the streak, mark
\* disconnected, then either emergency_all_off or only the 2 s sleep
PollError ==
  /\ mpc = "select"
  /\ SharedFree
  /\ mqtt_error_count' = mqtt_error_count + 1
  /\ LET first_err == IF mqtt_first_error_at = -1 THEN 0
                      ELSE mqtt_first_error_at
         error_duration == first_err
         has_open_valves == \E z \in DOMAIN snap_on : snap_on[z]
     IN /\ mqtt_first_error_at' = first_err
        /\ streak_age' = IF streak_age = -1 THEN 0 ELSE streak_age
        /\ IF has_open_valves /\ error_duration >= MQTT_GRACE_PERIOD_SEC
             THEN /\ mpc' = "eao_board"
                  /\ eao_ret' = "mqtt_error"
                  /\ sleep_left' = sleep_left
             ELSE /\ mpc' = "err_sleep"
                  /\ eao_ret' = eao_ret
                  /\ sleep_left' = ERR_SLEEP_SEC
  /\ mqtt_connected' = FALSE
  /\ cmd_events' = IF mqtt_connected THEN <<"system:mqtt error">> ELSE <<>>
  /\ UNCHANGED <<schedVars, cfgVars, physVars, vbVars, hbVars, outVars, dayVars, libVars, supVars, poll_sec, wd_wait, valveVars, snap_on, dbVars, hz, hdur,
                 counters_read, cmd_watering, wdVars>>

\* the Err branch of a poll error of Spec, where the errors of a streak are
\* counted up to MaxErrCount
BusError ==
  /\ mqtt_error_count < MaxErrCount
  /\ PollError

\* emergency_all_off: valves.lock().await.all_off()
EmergencyBoard ==
  /\ mpc = "eao_board"
  /\ board_lock = "free"
  /\ board' = BoardAllOff(board)
  /\ mpc' = "eao_opened"
  /\ UNCHANGED <<schedVars, cfgVars, physVars, vbVars, hbVars, outVars, dayVars, libVars, supVars, fineVars, valve_opened_at, board_lock, opened_lock, snap_on,
                 mqtt_connected, dbVars, hVars, cmd_events, cmd_watering,
                 mqttVars, wdVars>>

\* an emergency_all_off that leaves the opened_at entries
EmergencyOpenedKeeps ==
  /\ mpc = "eao_opened"
  /\ opened_lock = "free"
  /\ mpc' = "eao_shared"
  /\ UNCHANGED <<schedVars, cfgVars, physVars, vbVars, hbVars, outVars, dayVars, libVars, supVars, fineVars, valveVars, snap_on, mqtt_connected,
                 dbVars, hVars, cmd_events, cmd_watering, mqttVars, wdVars>>

\* emergency_all_off: valve_opened_at.lock().await.clear()
EmergencyOpened ==
  /\ mpc = "eao_opened"
  /\ opened_lock = "free"
  /\ valve_opened_at' = NoInstants
  /\ mpc' = "eao_shared"
  /\ UNCHANGED <<schedVars, cfgVars, physVars, vbVars, hbVars, outVars, dayVars, libVars, supVars, fineVars, board, board_lock, opened_lock, snap_on,
                 mqtt_connected, dbVars, hVars, cmd_events, cmd_watering,
                 mqttVars, wdVars>>

\* emergency_all_off: snapshot update; back in the caller, the Err branch
\* resets the streak and sleeps, the shutdown path goes on to the backup
EmergencyShared ==
  /\ mpc = "eao_shared"
  /\ SharedFree
  /\ mqtt_connected' = FALSE
  /\ snap_on' = SetAllZonesOff(snap_on)
  /\ cmd_events' = Append(cmd_events, "error:all valves off")
  /\ IF eao_ret = "mqtt_error"
       THEN /\ mqtt_first_error_at' = -1
            /\ mqtt_error_count' = 0
            /\ streak_age' = -1
            /\ mpc' = "err_sleep"
            /\ sleep_left' = ERR_SLEEP_SEC
       ELSE /\ UNCHANGED <<mqttVars, sleep_left>>
            /\ mpc' = "sd_backup"
  /\ UNCHANGED <<schedVars, cfgVars, physVars, vbVars, hbVars, outVars, dayVars, libVars, supVars, poll_sec, wd_wait,
                 valveVars, dbVars, hVars, cmd_watering, wdVars>>

\* ------------------------------------------------------------------------
\* Main task: signals and graceful shutdown
\* ------------------------------------------------------------------------
\* ctrl_c or sigterm.recv() is the branch select! takes
Signal ==
  /\ mpc = "select"
  /\ mpc' = "eao_board"
  /\ eao_ret' = "shutdown"
  /\ cmd_events' = <<>>
  /\ UNCHANGED <<schedVars, cfgVars, physVars, vbVars, hbVars, outVars, dayVars, libVars, supVars, fineVars, valveVars, snap_on, mqtt_connected, dbVars,
                 hz, hdur, counters_read, cmd_watering, mqttVars, wdVars>>

\* what db.backup(dest) leaves in the history, dest being configured
Backup(ok) == [step |-> "backup", ok |-> ok]

\* what the publish of the offline announcement leaves in the history
PublishOffline(ok) ==
  [step |-> "publish", topic |-> "status/hub", payload |-> "offline",
   retain |-> TRUE, ok |-> ok]

\* a shutdown that propagates the error of a failed backup out of main()
ShutdownBackupAborts ==
  /\ mpc = "sd_backup"
  /\ \E configured, ok \in BOOLEAN :
       /\ shutdown' = IF configured THEN Append(shutdown, Backup(ok))
                      ELSE shutdown
       /\ mpc' = IF configured /\ ~ok THEN "panicked" ELSE "sd_publish"
  /\ UNCHANGED <<schedVars, cfgVars, physVars, vbVars, hbVars, outVars, dayVars, libVars, tasks, sig_pending, fineVars, valveVars, snap_on, mqtt_connected, dbVars,
                 hVars, cmd_events, cmd_watering, mqttVars, wdVars>>

\* final database backup, if db_backup_path is configured; its failure is
\* only logged
ShutdownBackup ==
  /\ mpc = "sd_backup"
  /\ \E configured, ok \in BOOLEAN :
       shutdown' = IF configured THEN Append(shutdown, Backup(ok))
                   ELSE shutdown
  /\ mpc' = "sd_publish"
  /\ UNCHANGED <<schedVars, cfgVars, physVars, vbVars, hbVars, outVars, dayVars, libVars, tasks, sig_pending, fineVars, valveVars, snap_on, mqtt_connected, dbVars,
                 hVars, cmd_events, cmd_watering, mqttVars, wdVars>>

\* best-effort offline announcement, its result dropped, then main returns
\* Ok: the runtime drops every task and the ValveBoard, whose Drop runs
\* all_off
ShutdownExit ==
  /\ mpc = "sd_publish"
  /\ \E ok \in BOOLEAN : shutdown' = Append(shutdown, PublishOffline(ok))
  /\ mpc' = "exited"
  /\ board' = BoardAllOff(board)
  /\ UNCHANGED <<schedVars, cfgVars, physVars, vbVars, hbVars, outVars, dayVars, libVars, tasks, sig_pending, fineVars, valve_opened_at, board_lock, opened_lock, snap_on,
                 mqtt_connected, dbVars, hVars, cmd_events, cmd_watering,
                 mqttVars, wdVars>>

\* ------------------------------------------------------------------------
\* Watchdog task
\* ------------------------------------------------------------------------
\* a watchdog whose test is elapsed_secs >= max_secs
WatchdogScanAtLimit ==
  /\ ProcessRuns
  /\ wdpc = "wait"
  /\ wd_due
  /\ opened_lock = "free"
  /\ wd_due' = FALSE
  /\ wd_events' = <<>>
  /\ LET overdue == {z \in DOMAIN valve_opened_at :
                        valve_opened_at[z] >= MaxSecs(z)}
     IN IF overdue = {}
          THEN /\ UNCHANGED <<wdpc, to_close, opened_lock>>
          ELSE /\ to_close' = [z \in overdue |-> valve_opened_at[z]]
               /\ opened_lock' = "wd"
               /\ wdpc' = "lock_board"
  /\ UNCHANGED <<schedVars, cfgVars, physVars, vbVars, hbVars, outVars, dayVars, libVars, supVars, fineVars, board, valve_opened_at, board_lock, snap_on,
                 mqtt_connected, dbVars, mpc, hVars, cmd_events,
                 cmd_watering, mqttVars>>

\* ticker fired: lock valve_opened_at and collect the overdue entries; the
\* guard is dropped at once if there are none, else it is kept
WatchdogScan ==
  /\ ProcessRuns
  /\ wdpc = "wait"
  /\ wd_due
  /\ opened_lock = "free"
  /\ wd_due' = FALSE
  /\ wd_events' = <<>>
  /\ LET overdue == {z \in DOMAIN valve_opened_at :
                        valve_opened_at[z] > MaxSecs(z)}
     IN IF overdue = {}
          THEN /\ UNCHANGED <<wdpc, to_close, opened_lock>>
          ELSE /\ to_close' = [z \in overdue |-> valve_opened_at[z]]
               /\ opened_lock' = "wd"
               /\ wdpc' = "lock_board"
  /\ UNCHANGED <<schedVars, cfgVars, physVars, vbVars, hbVars, outVars, dayVars, libVars, supVars, fineVars, board, valve_opened_at, board_lock, snap_on,
                 mqtt_connected, dbVars, mpc, hVars, cmd_events,
                 cmd_watering, mqttVars>>

\* wd_valves.lock().await, then wd_shared.write().await
WatchdogLockBoard ==
  /\ ProcessRuns
  /\ wdpc = "lock_board"
  /\ board_lock = "free"
  /\ board_lock' = "wd"
  /\ wdpc' = "closing"
  /\ UNCHANGED <<schedVars, cfgVars, physVars, vbVars, hbVars, outVars, dayVars, libVars, supVars, fineVars, board, valve_opened_at, opened_lock, snap_on,
                 mqtt_connected, dbVars, mpc, hVars, cmd_events,
                 cmd_watering, mqttVars, wd_due, to_close, wd_events>>

\* the events one iteration of the force-close loop records: record_valve,
\* then record_error with the text of its format!, word by word
ForceCloseEvents(z, elapsed_secs) ==
  <<[kind |-> "valve", zone |-> z, on |-> FALSE],
    [kind |-> "error",
     words |-> <<"watchdog", "force-closed", "valve", z, "after",
                 elapsed_secs, "s">>]>>

\* a force-close that does not mark the zone off in the snapshot
ForceCloseLeavesOn(z) ==
  /\ ProcessRuns
  /\ wdpc = "closing"
  /\ z \in DOMAIN to_close
  /\ board' = BoardSet(board, z, FALSE)
  /\ valve_opened_at' = MapRemove(valve_opened_at, z)
  /\ snap_on' = snap_on
  /\ wd_events' = wd_events \o ForceCloseEvents(z, to_close[z])
  /\ to_close' = MapRemove(to_close, z)
  /\ IF DOMAIN to_close = {z}
       THEN /\ board_lock' = "free"
            /\ opened_lock' = "free"
            /\ wdpc' = "wait"
       ELSE UNCHANGED <<board_lock, opened_lock, wdpc>>
  /\ UNCHANGED <<schedVars, cfgVars, physVars, vbVars, hbVars, outVars, dayVars, libVars, supVars, fineVars, mqtt_connected, pulses, mpc, hVars, cmd_events,
                 cmd_watering, mqttVars, wd_due>>

\* one iteration of the force-close loop but for its add_open_seconds;
\* after the last iteration the three guards are dropped
ForceClose(z) ==
  /\ ProcessRuns
  /\ wdpc = "closing"
  /\ z \in DOMAIN to_close
  /\ board' = BoardSet(board, z, FALSE)
  /\ valve_opened_at' = MapRemove(valve_opened_at, z)
  /\ snap_on' = RecordValve(snap_on, z, FALSE)
  /\ wd_events' = wd_events \o ForceCloseEvents(z, to_close[z])
  /\ to_close' = MapRemove(to_close, z)
  /\ IF DOMAIN to_close = {z}
       THEN /\ board_lock' = "free"
            /\ opened_lock' = "free"
            /\ wdpc' = "wait"
       ELSE UNCHANGED <<board_lock, opened_lock, wdpc>>
  /\ UNCHANGED <<schedVars, cfgVars, physVars, vbVars, hbVars, outVars, dayVars, libVars, supVars, fineVars, mqtt_connected, pulses, mpc, hVars, cmd_events,
                 cmd_watering, mqttVars, wd_due>>

\* a force-close that does not account the open time
WatchdogCloseNoAccount(z) ==
  /\ ForceClose(z)
  /\ open_sec' = open_sec

\* force-close of z whose add_open_seconds returns Ok
WatchdogClose(z) ==
  /\ ForceClose(z)
  /\ open_sec' = AddOpenSeconds(open_sec, z, to_close[z])

\* force-close of z whose add_open_seconds returns Err, which is only logged
WatchdogCloseFails(z) ==
  /\ ForceClose(z)
  /\ open_sec' = open_sec

\* ------------------------------------------------------------------------
\* Clock
\* ------------------------------------------------------------------------
\* the main task waits for an event, sleeps, or waits for a held lock
MainWaits ==
  \/ mpc = "select" /\ \A t \in Tasks : tasks[t] = "running"
  \/ mpc = "err_sleep"
  \/ mpc \in {"on_lock_board", "off_board", "eao_board"} /\ board_lock # "free"
  \/ mpc \in {"on_lock_opened", "off_opened", "eao_opened"}
       /\ opened_lock # "free"
  \/ mpc \in {"on_ceiling", "on_record", "off_record", "eao_shared"}
       /\ ~SharedFree

\* the watchdog waits for its ticker or for a held lock
WatchdogWaits ==
  \/ wdpc \in {"parked", "dead"}
  \/ wdpc = "wait" /\ (~wd_due \/ opened_lock # "free")
  \/ wdpc = "lock_board" /\ board_lock # "free"

\* an optional Instant one clock step later; beyond the grace period its age
\* is no longer told apart
Aged(t) ==
  IF t = -1 THEN -1 ELSE Min(t + TickSec, MQTT_GRACE_PERIOD_SEC + TickSec)

\* the scheduler waits for its ticker, for the shared lock or for room in
\* the request channel of the bus client
SchedWaits ==
  \/ todo = {} /\ ticker > 0
  \/ ~SharedFree
  \/ todo # {} /\ Len(bus) >= MaxBus

\* TickSec seconds pass for the main task and the watchdog: every Instant
\* ages, the watchdog ticker fires, the 2 s sleep of the Err branch ends
ClockStep ==
  /\ ProcessRuns
  /\ MainWaits
  /\ WatchdogWaits
  /\ \A z \in DOMAIN valve_opened_at : valve_opened_at[z] < MaxAge
  /\ valve_opened_at' =
       [z \in DOMAIN valve_opened_at |-> valve_opened_at[z] + TickSec]
  /\ mqtt_first_error_at' = Aged(mqtt_first_error_at)
  /\ streak_age' = Aged(streak_age)
  /\ wd_due' = (wdpc # "parked")
  /\ mpc' = IF mpc = "err_sleep" THEN "ret" ELSE mpc
  /\ sleep_left' = 0
  /\ midnight_age' = IF midnight_age = -1 THEN -1
                     ELSE Min(midnight_age + TickSec, MaxAge)
  /\ phys_open' = [z \in DOMAIN phys_open |->
                      IF board[z] THEN Min(phys_open[z] + TickSec, PhysCap(z))
                      ELSE phys_open[z]]
  /\ UNCHANGED <<cfgVars, vbVars, hbVars, outVars, yesterday_open_sec, libVars, supVars, poll_sec, wd_wait, board,
                 board_lock, opened_lock, snap_on,
                 mqtt_connected, dbVars, hVars, cmd_events, cmd_watering,
                 mqtt_error_count, wdpc, to_close, wd_events>>

\* a clock step of Spec
Tick ==
  /\ ClockStep
  /\ UNCHANGED schedVars

\* a clock step of SpecSched: the scheduler's ticker and Instants move too;
\* an undelivered publish is delivered before the clock moves if the main
\* task is polling
TickSched ==
  /\ ClockStep
  /\ SchedWaits
  /\ bus = <<>> \/ mpc # "select"
  /\ ticker' = IF ticker > TickSec THEN ticker - TickSec ELSE 0
  /\ states' =
       [z \in Zones |->
          IF states[z].st = "Watering"
            THEN Watering(Min(states[z].t + TickSec, ZoneCfg[z].pulse_sec))
          ELSE IF states[z].st = "Soaking"
            THEN Soaking(IF states[z].t > TickSec
                           THEN states[z].t - TickSec ELSE 0)
          ELSE states[z]]
  /\ sched_event' = "none"
  /\ UNCHANGED <<todo, base_active, started_this_tick, bus, manual_left>>

\* midnight UTC: Db::today_yyyy_mm_dd names a new row, which starts at zero
NewDay ==
  /\ ProcessRuns
  /\ pulses' = [z \in ZoneIds |-> 0]
  /\ open_sec' = [z \in ZoneIds |-> 0]
  /\ phys_open' = [z \in DOMAIN phys_open |-> 0]
  /\ UNCHANGED <<schedVars, cfgVars, vbVars, hbVars, outVars, dayVars, libVars, supVars, fineVars, valveVars, snap_on, mqtt_connected, mpc, hVars,
                 cmd_events, cmd_watering, mqttVars, wdVars>>

\* midnight UTC, the rows of the day that ends being kept: from now on
\* Db::today_yyyy_mm_dd names the row of the new day, which starts at zero
Midnight ==
  /\ ProcessRuns
  /\ midnight_age = -1
  /\ midnight_age' = 0
  /\ yesterday_open_sec' = open_sec
  /\ pulses' = [z \in ZoneIds |-> 0]
  /\ open_sec' = [z \in ZoneIds |-> 0]
  /\ phys_open' = [z \in DOMAIN phys_open |-> 0]
  /\ UNCHANGED <<schedVars, cfgVars, vbVars, hbVars, outVars, libVars, supVars, fineVars, valveVars, snap_on, mqtt_connected, mpc, hVars,
                 cmd_events, cmd_watering, mqttVars, wdVars>>

\* ------------------------------------------------------------------------
\* Scheduler task
\* ------------------------------------------------------------------------
\* handle_idle leaves the zone Idle, publishes nothing, records nothing
StayIdle == [state |-> Idle, publish |-> <<>>, event |-> "none"]

\* a handle_idle without the monitor mode branch
HandleIdleNoMonitorBranch(z, latest, fresh, counters, avg, moisture, pub) ==
  IF latest # "ok" \/ fresh # "fresh"
    THEN StayIdle
  ELSE IF avg # "ok" \/ moisture >= ZoneCfg[z].min_moisture
    THEN StayIdle
  ELSE IF pub # "ok"
    THEN StayIdle
  ELSE [state |-> Watering(0),
        publish |-> <<[zone |-> z, payload |-> "ON"]>>,
        event |-> "pulse started"]

\* a handle_idle that does not look at the bus connection
HandleIdleIgnoresLink(z, latest, fresh, counters, avg, moisture, pub) ==
  IF mode = "auto"
       /\ (\/ z \in DOMAIN snap_on /\ snap_on[z]
           \/ ActiveCount(snap_on) >= max_concurrent_valves)
    THEN StayIdle
  ELSE IF latest # "ok" \/ fresh # "fresh"
    THEN StayIdle
  ELSE IF mode = "auto"
            /\ (\/ counters # "ok"
                \/ pulses[z] >= ZoneCfg[z].max_pulses_per_day
                \/ open_sec[z] >= ZoneCfg[z].max_open_sec_per_day)
    THEN StayIdle
  ELSE IF avg # "ok" \/ moisture >= ZoneCfg[z].min_moisture
    THEN StayIdle
  ELSE IF mode = "monitor"
    THEN [state |-> Idle, publish |-> <<>>, event |-> "low moisture alert"]
  ELSE IF pub # "ok"
    THEN StayIdle
  ELSE [state |-> Watering(0),
        publish |-> <<[zone |-> z, payload |-> "ON"]>>,
        event |-> "pulse started"]

\* handle_idle: the new state of the zone, what is published, the event
HandleIdle(z, latest, fresh, counters, avg, moisture, pub) ==
  IF mode = "auto"
       /\ (\/ ~mqtt_connected
           \/ z \in DOMAIN snap_on /\ snap_on[z]
           \/ ActiveCount(snap_on) >= max_concurrent_valves)
    THEN StayIdle
  ELSE IF latest # "ok" \/ fresh # "fresh"
    THEN StayIdle
  ELSE IF mode = "auto"
            /\ (\/ counters # "ok"
                \/ pulses[z] >= ZoneCfg[z].max_pulses_per_day
                \/ open_sec[z] >= ZoneCfg[z].max_open_sec_per_day)
    THEN StayIdle
  ELSE IF avg # "ok" \/ moisture >= ZoneCfg[z].min_moisture
    THEN StayIdle
  ELSE IF mode = "monitor"
    THEN [state |-> Idle, publish |-> <<>>, event |-> "low moisture alert"]
  ELSE IF pub # "ok"
    THEN StayIdle
  ELSE [state |-> Watering(0),
        publish |-> <<[zone |-> z, payload |-> "ON"]>>,
        event |-> "pulse started"]

\* a handle_watering that enters the soak whether or not OFF was published
HandleWateringIgnoresPublish(z, pub) ==
  IF states[z].t < ZoneCfg[z].pulse_sec
    THEN [state |-> states[z], publish |-> <<>>, event |-> "none"]
  ELSE [state |-> Soaking(ZoneCfg[z].soak_min * 60),
        publish |-> IF pub = "ok" THEN <<[zone |-> z, payload |-> "OFF"]>>
                    ELSE <<>>,
        event |-> "pulse done"]

\* handle_watering
HandleWatering(z, pub) ==
  IF states[z].t < ZoneCfg[z].pulse_sec \/ pub # "ok"
    THEN [state |-> states[z], publish |-> <<>>, event |-> "none"]
  ELSE [state |-> Soaking(ZoneCfg[z].soak_min * 60),
        publish |-> <<[zone |-> z, payload |-> "OFF"]>>,
        event |-> "pulse done"]

\* a handle_soaking that starts the next pulse itself when the soak is over
HandleSoakingRestarts(z, avg, moisture) ==
  IF states[z].t > 0
    THEN [state |-> states[z], publish |-> <<>>, event |-> "none"]
  ELSE IF avg # "ok"
    THEN [state |-> Idle, publish |-> <<>>, event |-> "none"]
  ELSE IF moisture >= ZoneCfg[z].target_moisture
    THEN [state |-> Idle, publish |-> <<>>, event |-> "target reached"]
  ELSE [state |-> Watering(0), publish |-> <<>>, event |-> "soak done"]

\* a handle_soaking that keeps soaking when the average cannot be read
HandleSoakingKeepsOnError(z, avg, moisture) ==
  IF states[z].t > 0 \/ avg # "ok"
    THEN [state |-> states[z], publish |-> <<>>, event |-> "none"]
  ELSE IF moisture >= ZoneCfg[z].target_moisture
    THEN [state |-> Idle, publish |-> <<>>, event |-> "target reached"]
  ELSE [state |-> Idle, publish |-> <<>>, event |-> "soak done"]

\* handle_soaking
HandleSoaking(z, avg, moisture) ==
  IF states[z].t > 0
    THEN [state |-> states[z], publish |-> <<>>, event |-> "none"]
  ELSE IF avg # "ok"
    THEN [state |-> Idle, publish |-> <<>>, event |-> "none"]
  ELSE IF moisture >= ZoneCfg[z].target_moisture
    THEN [state |-> Idle, publish |-> <<>>, event |-> "target reached"]
  ELSE [state |-> Idle, publish |-> <<>>, event |-> "soak done"]

\* ticker.tick() returned: base_active is read, the zones are to be visited
SchedTick ==
  /\ ProcessRuns
  /\ todo = {}
  /\ ticker = 0
  /\ SharedFree
  /\ base_active' = ActiveCount(snap_on)
  /\ started_this_tick' = 0
  /\ todo' = Zones
  /\ ticker' = TICK_INTERVAL_SEC
  /\ sched_event' = "none"
  /\ UNCHANGED <<cfgVars, physVars, vbVars, hbVars, outVars, dayVars, libVars, supVars, fineVars, valveVars, snap_on, mqtt_connected, dbVars, mpc,
                 hVars, cmd_events, cmd_watering, mqttVars, wdVars, states,
                 bus, manual_left>>

\* a for loop of run() that compares base_active alone with the limit
SchedEvalNoTickCounter(z, in) ==
  /\ ProcessRuns
  /\ z \in todo
  /\ SharedFree
  /\ Len(bus) < MaxBus
  /\ LET skip == /\ states[z].st = "Idle"
                 /\ mode = "auto"
                 /\ base_active >= max_concurrent_valves
         r == IF skip THEN StayIdle
              ELSE IF states[z].st = "Idle"
                THEN HandleIdle(z, in.latest, in.fresh, in.counters, in.avg,
                                in.moisture, in.pub)
              ELSE IF states[z].st = "Watering"
                THEN HandleWatering(z, in.pub)
              ELSE HandleSoaking(z, in.avg, in.moisture)
         started == IF /\ states[z].st = "Idle"
                       /\ mode = "auto"
                       /\ r.state.st = "Watering"
                      THEN started_this_tick + 1 ELSE started_this_tick
         last == todo = {z}
     IN /\ states' = [states EXCEPT ![z] = r.state]
        /\ bus' = bus \o r.publish
        /\ sched_event' = r.event
        /\ todo' = todo \ {z}
        /\ started_this_tick' = IF last THEN 0 ELSE started
        /\ base_active' = IF last THEN 0 ELSE base_active
  /\ UNCHANGED <<cfgVars, physVars, vbVars, hbVars, outVars, dayVars, libVars, supVars, fineVars, snap_on, mqtt_connected, dbVars, mpc, hVars,
                 cmd_events, cmd_watering, mqttVars, wdVars, ticker,
                 manual_left>>

\* one iteration of the for loop of run(), but for what it leaves alone
SchedEval(z, in) ==
  /\ ProcessRuns
  /\ z \in todo
  /\ SharedFree
  /\ Len(bus) < MaxBus
  /\ LET skip == /\ states[z].st = "Idle"
                 /\ mode = "auto"
                 /\ base_active + started_this_tick >= max_concurrent_valves
         r == IF skip THEN StayIdle
              ELSE IF states[z].st = "Idle"
                THEN HandleIdle(z, in.latest, in.fresh, in.counters, in.avg,
                                in.moisture, in.pub)
              ELSE IF states[z].st = "Watering"
                THEN HandleWatering(z, in.pub)
              ELSE HandleSoaking(z, in.avg, in.moisture)
         started == IF /\ states[z].st = "Idle"
                       /\ mode = "auto"
                       /\ r.state.st = "Watering"
                      THEN started_this_tick + 1 ELSE started_this_tick
         last == todo = {z}
     IN /\ states' = [states EXCEPT ![z] = r.state]
        /\ bus' = bus \o r.publish
        /\ sched_event' = r.event
        /\ todo' = todo \ {z}
        /\ started_this_tick' = IF last THEN 0 ELSE started
        /\ base_active' = IF last THEN 0 ELSE base_active
  /\ UNCHANGED <<cfgVars, physVars, vbVars, hbVars, outVars, dayVars, libVars, supVars, fineVars, snap_on, mqtt_connected, dbVars, mpc, hVars,
                 cmd_events, cmd_watering, mqttVars, wdVars, ticker,
                 manual_left>>

\* a scheduler that drives the valve itself when it starts a pulse
SchedZoneDrives(z, in) ==
  /\ SchedEval(z, in)
  /\ board' = IF states[z].st = "Idle" /\ states'[z].st = "Watering"
                THEN BoardSet(board, z, TRUE) ELSE board
  /\ UNCHANGED <<valve_opened_at, board_lock, opened_lock>>

\* one iteration of the for loop of run(): the zone's handler with the
\* outcomes of its database reads and of its publish; the scheduler holds
\* neither the valve board nor the opened_at map
SchedZone(z, in) ==
  /\ SchedEval(z, in)
  /\ UNCHANGED valveVars

\* ------------------------------------------------------------------------
\* Arrival of valve commands
\* ------------------------------------------------------------------------
\* Spec: a Publish on valve/<z>/set arrives, whoever sent it
ManualCommand(z, p) ==
  /\ ValveCommand(z, p)
  /\ UNCHANGED schedVars

\* SpecSched: the broker hands the scheduler's oldest publish back to the hub
BusCommand ==
  /\ bus # <<>>
  /\ ValveCommand(Head(bus).zone, Head(bus).payload)
  /\ bus' = Tail(bus)
  /\ UNCHANGED <<states, ticker, todo, base_active, started_this_tick,
                 sched_event, manual_left>>

\* SpecSched: a Publish of another client arrives
OperatorCommand(z, p) ==
  /\ manual_left > 0
  /\ ValveCommand(z, p)
  /\ manual_left' = manual_left - 1
  /\ UNCHANGED <<states, ticker, todo, base_active, started_this_tick,
                 sched_event, bus>>

\* ------------------------------------------------------------------------
\* Pulses of the scheduler against the watchdog
\* ------------------------------------------------------------------------
\* handle_watering at the tick that falls pulse_sec after the tick of the ON:
\* `since` was taken after the publish, later than the start of that tick,
\* so since.elapsed().as_secs() may still be pulse_sec - 1 and the pulse
\* runs for one more tick
SchedZoneLate(z) ==
  /\ ProcessRuns
  /\ z \in todo
  /\ SharedFree
  /\ states[z] = Watering(ZoneCfg[z].pulse_sec)
  /\ z \in DOMAIN valve_opened_at
  /\ valve_opened_at[z] = ZoneCfg[z].pulse_sec
  /\ todo' = todo \ {z}
  /\ sched_event' = "none"
  /\ started_this_tick' = IF todo = {z} THEN 0 ELSE started_this_tick
  /\ base_active' = IF todo = {z} THEN 0 ELSE base_active
  /\ UNCHANGED <<cfgVars, physVars, vbVars, hbVars, outVars, dayVars, libVars, supVars, fineVars, snap_on, mqtt_connected, dbVars, mpc, hVars,
                 cmd_events, cmd_watering, mqttVars, wdVars, ticker,
                 manual_left, states, bus, valveVars>>

\* the scheduler is the only publisher of valve commands, its publishes
\* succeed and are delivered before the clock moves; the watchdog scans
NextPulse ==
  \/ SchedTick
  \/ \E z \in Zones, in \in SchedInputs : in.pub = "ok" /\ SchedZone(z, in)
  \/ \E z \in Zones : SchedZoneLate(z)
  \/ BusCommand
  \/ OnCeiling
  \/ OnCounters
  \/ OnLockBoard
  \/ OnOpen
  \/ OnAddPulse
  \/ OnRecord
  \/ OffBoard
  \/ OffOpened
  \/ OffAccount
  \/ OffRecord
  \/ ConnAck
  \/ Return
  \/ WatchdogScan
  \/ TickSched

SpecPulse == Init /\ [][NextPulse]_vars

\* ------------------------------------------------------------------------
\* Specifications
\* ------------------------------------------------------------------------
\* steps of the main task and of the watchdog that both specifications have
HubStep ==
  \/ OnCeiling
  \/ OnCounters
  \/ OnLockBoard
  \/ OnOpen
  \/ OnAddPulse
  \/ OnRecord
  \/ OffBoard
  \/ OffOpened
  \/ OffAccount
  \/ OffRecord
  \/ ConnAck
  \/ Disconnect
  \/ IncomingOther
  \/ Return
  \/ EmergencyBoard
  \/ EmergencyOpened
  \/ EmergencyShared
  \/ Signal
  \/ ShutdownBackup
  \/ ShutdownExit
  \/ WatchdogScan
  \/ WatchdogLockBoard
  \/ \E z \in ZoneIds : WatchdogClose(z)

Next ==
  \/ \E z \in CommandIds, p \in Payloads : ManualCommand(z, p)
  \/ HubStep
  \/ BusError
  \/ NewDay
  \/ OnAddPulseFails
  \/ OffAccountFails
  \/ \E z \in ZoneIds : WatchdogCloseFails(z)
  \/ Tick

Spec == Init /\ [][Next]_vars

NextSched ==
  \/ SchedTick
  \/ \E z \in Zones, in \in SchedInputs : SchedZone(z, in)
  \/ BusCommand
  \/ \E z \in CommandIds, p \in Payloads : OperatorCommand(z, p)
  \/ HubStep
  \/ TickSched

SpecSched == Init /\ [][NextSched]_vars

\* ------------------------------------------------------------------------
\* Supervision of the spawned tasks (select loop of main())
\* ------------------------------------------------------------------------
\* a spawned task returns or panics: its JoinHandle becomes ready; the
\* watchdog drops the guards it holds; the watchdog of monitor mode is
\* std::future::pending and never completes
TaskExits(t) ==
  /\ ProcessRuns
  /\ tasks[t] = "running"
  /\ t = "watchdog" => mode = "auto"
  /\ Cardinality({u \in Tasks : tasks[u] # "running"}) < MaxExits
  /\ tasks' = [tasks EXCEPT ![t] = "finished"]
  /\ IF t = "watchdog"
       THEN /\ wdpc' = "dead"
            /\ wd_due' = FALSE
            /\ to_close' = NoInstants
            /\ board_lock' = IF board_lock = "wd" THEN "free" ELSE board_lock
            /\ opened_lock' = IF opened_lock = "wd" THEN "free" ELSE opened_lock
       ELSE UNCHANGED <<wdVars, board_lock, opened_lock>>
  /\ UNCHANGED <<schedVars, cfgVars, physVars, vbVars, hbVars, outVars, dayVars, libVars, fineVars, board, valve_opened_at,
                 snap_on, mqtt_connected, dbVars, mpc, hVars, cmd_events,
                 cmd_watering, mqttVars, wd_events, shutdown,
                 sig_pending>>

\* select! takes the branch of the JoinHandle of the watchdog or of the
\* scheduler: break, then the graceful shutdown
SupervisorCritical(t) ==
  /\ mpc = "select"
  /\ t \in CriticalTasks
  /\ tasks[t] = "finished"
  /\ tasks' = [tasks EXCEPT ![t] = "joined"]
  /\ mpc' = "eao_board"
  /\ eao_ret' = "shutdown"
  /\ cmd_events' = <<>>
  /\ UNCHANGED <<schedVars, cfgVars, physVars, vbVars, hbVars, outVars, dayVars, libVars, fineVars, valveVars, snap_on,
                 mqtt_connected, dbVars, hz, hdur, counters_read,
                 cmd_watering, mqttVars, wdVars, shutdown,
                 sig_pending>>

\* select! takes the branch of the JoinHandle of a best-effort task: the
\* result is logged and the loop goes round
SupervisorBestEffort(t) ==
  /\ mpc = "select"
  /\ t \in BestEffortTasks
  /\ tasks[t] = "finished"
  /\ tasks' = [tasks EXCEPT ![t] = "joined"]
  /\ UNCHANGED <<schedVars, cfgVars, physVars, vbVars, hbVars, outVars, dayVars, libVars, fineVars, valveVars, snap_on,
                 mqtt_connected, dbVars, mpc, hVars, cmd_events, cmd_watering,
                 mqttVars, wdVars, shutdown, sig_pending>>

\* select! polls, through &mut, a JoinHandle whose output was taken on an
\* earlier iteration: the poll panics in the main task and the process
\* ends; whether the ValveBoard is dropped (all_off) on the way depends on
\* the panic strategy of the build
JoinHandleRepolled ==
  /\ mpc = "select"
  /\ \E t \in Tasks : tasks[t] = "joined"
  /\ mpc' = "panicked"
  /\ \E dropped \in BOOLEAN :
       board' = IF dropped THEN BoardAllOff(board) ELSE board
  /\ UNCHANGED <<schedVars, cfgVars, physVars, vbVars, hbVars, outVars, dayVars, libVars, supVars, fineVars,
                 valve_opened_at, board_lock, opened_lock, snap_on,
                 mqtt_connected, dbVars, hVars, cmd_events, cmd_watering,
                 mqttVars, wdVars>>

\* exit status of the process, once it has ended
ExitCode == IF mpc = "exited" THEN 0 ELSE PANIC_EXIT_CODE

NextSup ==
  \/ \E t \in Tasks : TaskExits(t)
  \/ \E t \in Tasks : SupervisorCritical(t)
  \/ \E t \in Tasks : SupervisorBestEffort(t)
  \/ JoinHandleRepolled
  \/ \E z \in CommandIds, p \in Payloads : OperatorCommand(z, p)
  \/ OnCeiling
  \/ OnCounters
  \/ OnLockBoard
  \/ OnOpen
  \/ OnAddPulse
  \/ OnRecord
  \/ OffBoard
  \/ OffOpened
  \/ OffRecord
  \/ ConnAck
  \/ Disconnect
  \/ IncomingOther
  \/ Return
  \/ EmergencyBoard
  \/ EmergencyOpened
  \/ EmergencyShared
  \/ Signal
  \/ ShutdownBackup
  \/ ShutdownExit
  \/ WatchdogScan
  \/ WatchdogLockBoard
  \/ \E z \in ZoneIds : WatchdogClose(z)
  \/ Tick

\* the supervisor: up to MaxExits spawned tasks end while the main task
\* handles up to MaxManual valve commands, signals and the watchdog runs
SpecSup == Init /\ [][NextSup]_vars

\* ------------------------------------------------------------------------
\* A streak of bus errors, second by second
\* ------------------------------------------------------------------------
\* one second passes during a streak of poll errors, for the main task and
\* the watchdog: every Instant ages, the sleep of the Err branch runs down
\* and ends, a pending poll stays pending, the watchdog ticker fires every
\* WATCHDOG_INTERVAL_SEC seconds
Second ==
  /\ ProcessRuns
  /\ streak_age \in 0..(GraceHorizon - 1)
  /\ MainWaits
  /\ mpc = "select" => poll_sec < PollMaxSec
  /\ WatchdogWaits
  /\ \A z \in DOMAIN valve_opened_at : valve_opened_at[z] < MaxAge
  /\ valve_opened_at' =
       [z \in DOMAIN valve_opened_at |-> valve_opened_at[z] + 1]
  /\ mqtt_first_error_at' =
       IF mqtt_first_error_at = -1 THEN -1 ELSE mqtt_first_error_at + 1
  /\ streak_age' = streak_age + 1
  /\ wd_wait' = (wd_wait + 1) % WATCHDOG_INTERVAL_SEC
  /\ wd_due' = IF wd_wait + 1 = WATCHDOG_INTERVAL_SEC /\ wdpc # "parked"
                 THEN TRUE ELSE wd_due
  /\ sleep_left' = IF mpc = "err_sleep" THEN sleep_left - 1 ELSE sleep_left
  /\ mpc' = IF mpc = "err_sleep" /\ sleep_left = 1 THEN "ret" ELSE mpc
  /\ poll_sec' = IF mpc = "select" THEN poll_sec + 1 ELSE poll_sec
  /\ midnight_age' = IF midnight_age = -1 THEN -1
                     ELSE Min(midnight_age + 1, MaxAge)
  /\ UNCHANGED <<schedVars, cfgVars, physVars, vbVars, hbVars, outVars, yesterday_open_sec, libVars, supVars, board, board_lock,
                 opened_lock, snap_on, mqtt_connected, dbVars, hVars,
                 cmd_events, cmd_watering, mqtt_error_count, wdpc, to_close,
                 wd_events>>

\* a poll of the streak fails, at once or after up to PollMaxSec seconds
GraceError == PollError /\ UNCHANGED schedVars

\* before the first error of the streak: a valve command arrives
GraceCommand(z, p) ==
  /\ streak_age = -1
  /\ ManualCommand(z, p)

\* before the first error of the streak: the broker accepts the connection
GraceConnAck ==
  /\ streak_age = -1
  /\ ConnAck

NextGrace ==
  \/ \E z \in CommandIds, p \in Payloads : GraceCommand(z, p)
  \/ GraceConnAck
  \/ GraceError
  \/ Second
  \/ OnCeiling
  \/ OnCounters
  \/ OnLockBoard
  \/ OnOpen
  \/ OnAddPulse
  \/ OnRecord
  \/ OffBoard
  \/ OffOpened
  \/ OffAccount
  \/ OffRecord
  \/ Return
  \/ EmergencyBoard
  \/ EmergencyOpened
  \/ EmergencyShared
  \/ WatchdogScan
  \/ WatchdogLockBoard
  \/ \E z \in ZoneIds : WatchdogClose(z)

\* valve commands, then from t = 0 on every poll of the bus fails: the Err
\* branch and its 2 s sleep, the watchdog and the clock, second by second
SpecGrace == Init /\ [][NextGrace]_vars

\* ------------------------------------------------------------------------
\* Signals and the select loop
\* ------------------------------------------------------------------------
\* the kernel delivers SIGINT or SIGTERM: ctrl_c or sigterm.recv() is ready
\* from now on
SignalDelivered ==
  /\ ProcessRuns
  /\ ~sig_pending
  /\ sig_pending' = TRUE
  /\ UNCHANGED <<schedVars, cfgVars, physVars, vbVars, hbVars, outVars, dayVars, libVars, tasks, shutdown, fineVars,
                 valveVars, snap_on, mqtt_connected, dbVars, mpc, hVars,
                 cmd_events, cmd_watering, mqttVars, wdVars>>

\* select! takes the branch of the signal that was delivered
SignalBranch ==
  /\ sig_pending
  /\ Signal

\* the bodies of the select! branches, emergency_all_off and the graceful
\* shutdown: steps the main task takes by itself
MainRuns ==
  \/ OnCeiling
  \/ OnCounters
  \/ OnLockBoard
  \/ OnOpen
  \/ OnAddPulse
  \/ OnRecord
  \/ OffBoard
  \/ OffOpened
  \/ OffRecord
  \/ Return
  \/ EmergencyBoard
  \/ EmergencyOpened
  \/ EmergencyShared
  \/ ShutdownBackup
  \/ ShutdownExit

\* select! finds another branch ready: a JoinHandle or a packet of the bus
OtherBranch ==
  \/ \E t \in Tasks : SupervisorCritical(t)
  \/ \E t \in Tasks : SupervisorBestEffort(t)
  \/ JoinHandleRepolled
  \/ \E z \in CommandIds, p \in Payloads : OperatorCommand(z, p)
  \/ ConnAck
  \/ Disconnect
  \/ IncomingOther

WatchdogRuns ==
  \/ WatchdogScan
  \/ WatchdogLockBoard
  \/ \E z \in ZoneIds : WatchdogClose(z)

NextSignal ==
  \/ SignalDelivered
  \/ SignalBranch
  \/ \E t \in Tasks : TaskExits(t)
  \/ OtherBranch
  \/ MainRuns
  \/ WatchdogRuns
  \/ Tick

\* a signal is delivered at any time while spawned tasks end and packets
\* arrive; the runtime keeps running every task that can run, the clock
\* goes on, and select!, which starts at a branch picked at random, does not
\* pass over a branch that stays ready for ever
SpecSignal ==
  /\ Init
  /\ [][NextSignal]_vars
  /\ WF_vars(MainRuns)
  /\ WF_vars(WatchdogRuns)
  /\ WF_vars(Tick)
  /\ SF_vars(SignalBranch)

\* ------------------------------------------------------------------------
\* Valve commands and the watchdog across midnight UTC
\* ------------------------------------------------------------------------
\* the day changes while a valve is open
MidnightWhileOpen ==
  /\ DOMAIN valve_opened_at # {}
  /\ Midnight

\* a clock step of SpecDay
TickDay ==
  /\ midnight_age < DayHorizon
  /\ Tick

NextDay ==
  \/ \E z \in CommandIds, p \in Payloads : ManualCommand(z, p)
  \/ OnCeiling
  \/ OnCounters
  \/ OnLockBoard
  \/ OnOpen
  \/ OnAddPulse
  \/ OnRecord
  \/ OffBoard
  \/ OffOpened
  \/ OffAccount
  \/ OffRecord
  \/ Return
  \/ WatchdogScan
  \/ WatchdogLockBoard
  \/ \E z \in ZoneIds : WatchdogClose(z)
  \/ MidnightWhileOpen
  \/ TickDay

\* valve commands, the watchdog and the clock up to a midnight UTC that
\* finds a valve open and for DayHorizon seconds after it; the bus
\* connection holds and database writes succeed
SpecDay == Init /\ [][NextDay]_vars

\* ------------------------------------------------------------------------
\* Valve commands for zone ids with and without configuration
\* ------------------------------------------------------------------------
\* a Publish on valve/<z>/set arrives, z being any id; commands for an id
\* without configuration are followed up to PulseBound counted pulses
AnyIdCommand(z, p) ==
  /\ z \notin Zones => pulses[z] < PulseBound
  /\ ManualCommand(z, p)

\* ids the commands of SpecUnknown carry: one zone of the zones table and
\* the id that is not in it
UnknownRunIds == {"z1"} \cup (ZoneIds \ Zones)

NextUnknown ==
  \/ \E z \in UnknownRunIds, p \in Payloads : AnyIdCommand(z, p)
  \/ OnCeiling
  \/ OnCounters
  \/ OnLockBoard
  \/ OnOpen
  \/ OnAddPulse
  \/ OnAddPulseFails
  \/ OnRecord
  \/ OffBoard
  \/ OffOpened
  \/ OffAccount
  \/ OffRecord
  \/ Return
  \/ WatchdogScan
  \/ WatchdogLockBoard
  \/ \E z \in ZoneIds : WatchdogClose(z)
  \/ Tick

\* valve/<id>/set arrives with any id, those of the zones table and one
\* that is not in it; add_pulse may fail (the schema may or may not accept
\* a row for an id that is no zone)
SpecUnknown == Init /\ [][NextUnknown]_vars

\* ------------------------------------------------------------------------
\* Valve commands and the watchdog with two valves allowed at a time
\* ------------------------------------------------------------------------
\* main() up to the select loop, in auto mode with max_concurrent_valves 2
InitWatchdog ==
  /\ mode = "auto"
  /\ max_concurrent_valves = WdConcurrent
  /\ board = IF mode = "auto" THEN [z \in Zones |-> FALSE] ELSE NoZones
  /\ valve_opened_at = NoInstants
  /\ snap_on = IF mode = "auto" THEN [z \in Zones |-> FALSE] ELSE NoZones
  /\ mqtt_connected = FALSE
  /\ pulses = [z \in ZoneIds |-> 0]
  /\ open_sec = [z \in ZoneIds |-> 0]
  /\ board_lock = "free"
  /\ opened_lock = "free"
  /\ mpc = "select"
  /\ hz = "none"
  /\ hdur = 0
  /\ counters_read = "none"
  /\ eao_ret = "none"
  /\ cmd_events = <<>>
  /\ cmd_watering = <<>>
  /\ mqtt_first_error_at = -1
  /\ mqtt_error_count = 0
  /\ streak_age = -1
  /\ wdpc = IF mode = "auto" THEN "wait" ELSE "parked"
  /\ wd_due = FALSE
  /\ to_close = NoInstants
  /\ wd_events = <<>>
  /\ states = [z \in Zones |-> Idle]
  /\ ticker = TICK_INTERVAL_SEC
  /\ todo = {}
  /\ base_active = 0
  /\ started_this_tick = 0
  /\ sched_event = "none"
  /\ bus = <<>>
  /\ manual_left = MaxManual
  /\ tasks = [t \in Tasks |-> "running"]
  /\ shutdown = <<>>
  /\ sig_pending = FALSE
  /\ yesterday_open_sec = [z \in ZoneIds |-> 0]
  /\ midnight_age = -1
  /\ sleep_left = 0
  /\ poll_sec = 0
  /\ wd_wait = 0
  /\ nodes_seen = NoInstants
  /\ warned_stale = {}
  /\ hbpc = "sleep"
  /\ hb_ticker = HEARTBEAT_FIRST_CHECK_SEC
  /\ newly_stale = {}
  /\ recovered = {}
  /\ hb_events = <<>>
  /\ hb_last = [n \in NodeIds |-> "none"]
  /\ conn_out = <<>>
  /\ phys_open = NoInstants
  /\ RingInit /\ CalInit /\ TeleInit /\ VbInit

NextWatchdog ==
  \/ \E z \in CommandIds, p \in Payloads : ManualCommand(z, p)
  \/ OnCeiling
  \/ OnCounters
  \/ OnLockBoard
  \/ OnOpen
  \/ OnAddPulse
  \/ OnRecord
  \/ OffBoard
  \/ OffOpened
  \/ OffAccount
  \/ OffRecord
  \/ Return
  \/ WatchdogScan
  \/ WatchdogLockBoard
  \/ \E z \in ZoneIds : WatchdogClose(z)
  \/ Tick

\* valve commands for any zone at any time, the watchdog and the clock; the
\* bus connection holds and database writes succeed
SpecWatchdog == InitWatchdog /\ [][NextWatchdog]_vars

\* ------------------------------------------------------------------------
\* ------------------------------------------------------------------------
\* The scheduler of a hub started in monitor mode
\* ------------------------------------------------------------------------
\* rows of zone_daily_counters the database file holds for today when the
\* hub starts: none yet, or those an earlier run in auto mode left
StartCounters ==
  {c \in [pulses : {0, MaxPulsesPerDay}, open_sec : {0, 5}] :
     c.open_sec > 0 => c.pulses > 0}

\* main() up to the select loop, in monitor mode
InitMonitor ==
  /\ mode = "monitor"
  /\ max_concurrent_valves \in 0..MaxConcurrent
  /\ board = NoZones
  /\ valve_opened_at = NoInstants
  /\ snap_on = NoZones
  /\ mqtt_connected = FALSE
  /\ \E c \in [Zones -> StartCounters] :
       /\ pulses = [z \in ZoneIds |-> IF z \in Zones THEN c[z].pulses ELSE 0]
       /\ open_sec =
            [z \in ZoneIds |-> IF z \in Zones THEN c[z].open_sec ELSE 0]
  /\ board_lock = "free"
  /\ opened_lock = "free"
  /\ mpc = "select"
  /\ hz = "none"
  /\ hdur = 0
  /\ counters_read = "none"
  /\ eao_ret = "none"
  /\ cmd_events = <<>>
  /\ cmd_watering = <<>>
  /\ mqtt_first_error_at = -1
  /\ mqtt_error_count = 0
  /\ streak_age = -1
  /\ wdpc = "parked"
  /\ wd_due = FALSE
  /\ to_close = NoInstants
  /\ wd_events = <<>>
  /\ states = [z \in Zones |-> Idle]
  /\ ticker = TICK_INTERVAL_SEC
  /\ todo = {}
  /\ base_active = 0
  /\ started_this_tick = 0
  /\ sched_event = "none"
  /\ bus = <<>>
  /\ manual_left = MaxManual
  /\ tasks = [t \in Tasks |-> "running"]
  /\ shutdown = <<>>
  /\ sig_pending = FALSE
  /\ yesterday_open_sec = [z \in ZoneIds |-> 0]
  /\ midnight_age = -1
  /\ sleep_left = 0
  /\ poll_sec = 0
  /\ wd_wait = 0
  /\ nodes_seen = NoInstants
  /\ warned_stale = {}
  /\ hbpc = "sleep"
  /\ hb_ticker = HEARTBEAT_FIRST_CHECK_SEC
  /\ newly_stale = {}
  /\ recovered = {}
  /\ hb_events = <<>>
  /\ hb_last = [n \in NodeIds |-> "none"]
  /\ conn_out = <<>>
  /\ phys_open = NoInstants
  /\ RingInit /\ CalInit /\ TeleInit /\ VbInit

NextMonitor ==
  \/ SchedTick
  \/ \E z \in Zones, in \in SchedInputs : SchedZone(z, in)
  \/ \E z \in CommandIds, p \in Payloads : OperatorCommand(z, p)
  \/ ConnAck
  \/ Disconnect
  \/ Return
  \/ TickSched

\* the scheduler, the bus connection and valve commands in monitor mode
SpecMonitor == InitMonitor /\ [][NextMonitor]_vars

\* ------------------------------------------------------------------------
\* Node heartbeat monitor
\* ------------------------------------------------------------------------
\* stale_threshold, in seconds
StaleThresholdSec == NodeStaleTimeoutMin * 60

\* age at which last_seen is no longer followed
HbMaxAge == StaleThresholdSec + HbStepSec

\* elapsed > stale_threshold
IsStale(n) == nodes_seen[n] > StaleThresholdSec

\* record_reading, or record_node_status with online: last_seen becomes now
NodeSeen(n) ==
  /\ ProcessRuns
  /\ nodes_seen' = MapInsert(nodes_seen, n, 0)
  /\ UNCHANGED <<warned_stale, hbpc, hb_ticker, newly_stale, recovered,
                 hb_events, hb_last>>
  /\ UNCHANGED <<schedVars, cfgVars, physVars, vbVars, outVars, dayVars, libVars, supVars, fineVars,
                 valveVars, snap_on, mqtt_connected, dbVars, mpc, hVars,
                 cmd_events, cmd_watering, mqttVars, wdVars>>

\* record_node_status with offline: a node not yet known is entered with
\* last_seen now, the last_seen of a known node is kept
NodeOffline(n) ==
  /\ ProcessRuns
  /\ nodes_seen' = IF n \in DOMAIN nodes_seen THEN nodes_seen
                   ELSE MapInsert(nodes_seen, n, 0)
  /\ UNCHANGED <<warned_stale, hbpc, hb_ticker, newly_stale, recovered,
                 hb_events, hb_last>>
  /\ UNCHANGED <<schedVars, cfgVars, physVars, vbVars, outVars, dayVars, libVars, supVars, fineVars,
                 valveVars, snap_on, mqtt_connected, dbVars, mpc, hVars,
                 cmd_events, cmd_watering, mqttVars, wdVars>>

\* the sleep before the first check is over: the ticker is created, and its
\* first tick completes at once
HeartbeatWake ==
  /\ ProcessRuns
  /\ hbpc = "sleep"
  /\ hb_ticker = 0
  /\ hbpc' = "wait"
  /\ UNCHANGED <<nodes_seen, warned_stale, hb_ticker, newly_stale, recovered,
                 hb_events, hb_last>>
  /\ UNCHANGED <<schedVars, cfgVars, physVars, vbVars, outVars, dayVars, libVars, supVars, fineVars,
                 valveVars, snap_on, mqtt_connected, dbVars, mpc, hVars,
                 cmd_events, cmd_watering, mqttVars, wdVars>>

\* a check under the read guard: the nodes to report are collected
HeartbeatScan ==
  /\ ProcessRuns
  /\ hbpc = "wait"
  /\ hb_ticker = 0
  /\ LET stale == {n \in DOMAIN nodes_seen : IsStale(n) /\ n \notin warned_stale}
         back == {n \in DOMAIN nodes_seen : ~IsStale(n) /\ n \in warned_stale}
     IN /\ newly_stale' = stale
        /\ recovered' = back
        /\ hbpc' = IF stale = {} /\ back = {} THEN "wait" ELSE "record"
  /\ hb_ticker' = HEARTBEAT_CHECK_INTERVAL_SEC
  /\ hb_events' = <<>>
  /\ UNCHANGED <<nodes_seen, warned_stale, hb_last>>
  /\ UNCHANGED <<schedVars, cfgVars, physVars, vbVars, outVars, dayVars, libVars, supVars, fineVars,
                 valveVars, snap_on, mqtt_connected, dbVars, mpc, hVars,
                 cmd_events, cmd_watering, mqttVars, wdVars>>

\* events of one check: an error event per newly stale node, then a system
\* event per recovered node
RECURSIVE HbEvents(_, _)
HbEvents(kind, ns) ==
  IF ns = {} THEN <<>>
  ELSE LET n == CHOOSE x \in ns : TRUE
       IN <<[kind |-> kind, node |-> n]>> \o HbEvents(kind, ns \ {n})

\* a check that records nothing about the nodes that came back
HeartbeatRecordForgets ==
  /\ ProcessRuns
  /\ hbpc = "record"
  /\ hb_events' = HbEvents("stale", newly_stale)
  /\ warned_stale' = (warned_stale \cup newly_stale) \ recovered
  /\ hb_last' = [n \in NodeIds |->
                   IF n \in newly_stale THEN "stale" ELSE hb_last[n]]
  /\ newly_stale' = {}
  /\ recovered' = {}
  /\ hbpc' = "wait"
  /\ UNCHANGED <<nodes_seen, hb_ticker>>
  /\ UNCHANGED <<schedVars, cfgVars, physVars, vbVars, outVars, dayVars, libVars, supVars, fineVars,
                 valveVars, snap_on, mqtt_connected, dbVars, mpc, hVars,
                 cmd_events, cmd_watering, mqttVars, wdVars>>

\* the check under the write guard: the events are recorded, warned_stale
\* is brought up to date
HeartbeatRecord ==
  /\ ProcessRuns
  /\ hbpc = "record"
  /\ SharedFree
  /\ hb_events' = HbEvents("stale", newly_stale)
                    \o HbEvents("recovered", recovered)
  /\ warned_stale' = (warned_stale \cup newly_stale) \ recovered
  /\ hb_last' = [n \in NodeIds |->
                   IF n \in newly_stale THEN "stale"
                   ELSE IF n \in recovered THEN "recovered"
                   ELSE hb_last[n]]
  /\ newly_stale' = {}
  /\ recovered' = {}
  /\ hbpc' = "wait"
  /\ UNCHANGED <<nodes_seen, hb_ticker>>
  /\ UNCHANGED <<schedVars, cfgVars, physVars, vbVars, outVars, dayVars, libVars, supVars, fineVars,
                 valveVars, snap_on, mqtt_connected, dbVars, mpc, hVars,
                 cmd_events, cmd_watering, mqttVars, wdVars>>

\* HbStepSec seconds pass while the heartbeat monitor sleeps or waits for
\* its ticker
HbClock ==
  /\ ProcessRuns
  /\ hbpc \in {"sleep", "wait"}
  /\ hb_ticker > 0
  /\ hb_ticker' = IF hb_ticker > HbStepSec THEN hb_ticker - HbStepSec ELSE 0
  /\ nodes_seen' = [n \in DOMAIN nodes_seen |->
                      Min(nodes_seen[n] + HbStepSec, HbMaxAge)]
  /\ UNCHANGED <<warned_stale, hbpc, newly_stale, recovered, hb_events,
                 hb_last>>
  /\ UNCHANGED <<schedVars, cfgVars, physVars, vbVars, outVars, dayVars, libVars, supVars, fineVars,
                 valveVars, snap_on, mqtt_connected, dbVars, mpc, hVars,
                 cmd_events, cmd_watering, mqttVars, wdVars>>

NextHeartbeat ==
  \/ \E n \in NodeIds : NodeSeen(n)
  \/ \E n \in NodeIds : NodeOffline(n)
  \/ HeartbeatWake
  \/ HeartbeatScan
  \/ HeartbeatRecord
  \/ HbClock

\* the heartbeat monitor, the clock, and the messages of the nodes
SpecHeartbeat == Init /\ [][NextHeartbeat]_vars

\* ------------------------------------------------------------------------
\* Valve board (valve.rs), with the gpio feature and without it
\* ------------------------------------------------------------------------
Builds == {"gpio", "mock"}

\* zone_to_gpio of the boards that are followed
Registered == {Zones, {"z1"}}

\* the level set_low / set_high leaves on a pin, by what it does to the relay
Level(active_low, on) ==
  IF active_low THEN (IF on THEN "low" ELSE "high")
  ELSE (IF on THEN "high" ELSE "low")

\* what a cell of the board holds for a valve that is on or off: the level
\* of the OutputPin, or the bool of the mock
Cell(b, on) == IF b.build = "gpio" THEN Level(b.active_low, on) ELSE on

\* the relay of the zone is energised
IsOn(b, z) == b.cells[z] = Cell(b, TRUE)

\* ValveBoard::new
New(build, zone_to_gpio, active_low) ==
  LET b == [build |-> build, active_low |-> active_low, cells |-> NoZones,
            dropped |-> FALSE]
  IN [b EXCEPT !.cells = [z \in zone_to_gpio |-> Cell(b, FALSE)]]

\* a set that drives the pin high for on whatever the polarity of the relay
VbSetActiveHigh(b, z, on) ==
  IF z \in DOMAIN b.cells
    THEN [b EXCEPT !.cells[z] = IF b.build = "gpio" THEN Level(FALSE, on)
                                ELSE on]
  ELSE b

\* ValveBoard::set
VbSet(b, z, on) ==
  IF z \in DOMAIN b.cells THEN [b EXCEPT !.cells[z] = Cell(b, on)] ELSE b

\* ValveBoard::all_off : set(k, false) for each of the keys
RECURSIVE VbOff(_, _)
VbOff(b, keys) ==
  IF keys = {} THEN b
  ELSE LET k == CHOOSE x \in keys : TRUE
       IN VbOff(VbSet(b, k, FALSE), keys \ {k})

VbAllOff(b) == VbOff(b, DOMAIN b.cells)

\* the board main() builds, before the all_off that follows
InitBoard ==
  /\ HubInit /\ RingInit /\ CalInit /\ TeleInit
  /\ \E build \in Builds, zone_to_gpio \in Registered, active_low \in BOOLEAN :
       vb = New(build, zone_to_gpio, active_low)
  /\ vb_call = [op |-> "new"]

CallSet(z, on) ==
  /\ ~vb.dropped
  /\ vb' = VbSet(vb, z, on)
  /\ vb_call' = [op |-> "set", zone |-> z, on |-> on]
  /\ UNCHANGED <<schedVars, cfgVars, physVars, hbVars, outVars, dayVars, libVars,
                 supVars, fineVars, valveVars, snap_on, mqtt_connected,
                 dbVars, mpc, hVars, cmd_events, cmd_watering, mqttVars,
                 wdVars>>

CallAllOff ==
  /\ ~vb.dropped
  /\ vb' = VbAllOff(vb)
  /\ vb_call' = [op |-> "all_off"]
  /\ UNCHANGED <<schedVars, cfgVars, physVars, hbVars, outVars, dayVars, libVars,
                 supVars, fineVars, valveVars, snap_on, mqtt_connected,
                 dbVars, mpc, hVars, cmd_events, cmd_watering, mqttVars,
                 wdVars>>

\* Drop for ValveBoard; the pins keep their level (set_reset_on_drop(false))
DropBoard ==
  /\ ~vb.dropped
  /\ vb' = [VbAllOff(vb) EXCEPT !.dropped = TRUE]
  /\ vb_call' = [op |-> "drop"]
  /\ UNCHANGED <<schedVars, cfgVars, physVars, hbVars, outVars, dayVars, libVars,
                 supVars, fineVars, valveVars, snap_on, mqtt_connected,
                 dbVars, mpc, hVars, cmd_events, cmd_watering, mqttVars,
                 wdVars>>

NextBoard ==
  \/ \E z \in ZoneIds, on \in BOOLEAN : CallSet(z, on)
  \/ CallAllOff
  \/ DropBoard

\* any calls on a board of either build and polarity, until it is dropped
SpecBoard == InitBoard /\ [][NextBoard]_vars

\* ------------------------------------------------------------------------
\* Time a valve is on in the course of a day
\* ------------------------------------------------------------------------
\* main() up to the select loop, as for SpecWatchdog; from here on the
\* seconds each valve is on are added up
InitOpen ==
  /\ mode = "auto"
  /\ max_concurrent_valves = WdConcurrent
  /\ board = IF mode = "auto" THEN [z \in Zones |-> FALSE] ELSE NoZones
  /\ valve_opened_at = NoInstants
  /\ snap_on = IF mode = "auto" THEN [z \in Zones |-> FALSE] ELSE NoZones
  /\ mqtt_connected = FALSE
  /\ pulses = [z \in ZoneIds |-> 0]
  /\ open_sec = [z \in ZoneIds |-> 0]
  /\ board_lock = "free"
  /\ opened_lock = "free"
  /\ mpc = "select"
  /\ hz = "none"
  /\ hdur = 0
  /\ counters_read = "none"
  /\ eao_ret = "none"
  /\ cmd_events = <<>>
  /\ cmd_watering = <<>>
  /\ mqtt_first_error_at = -1
  /\ mqtt_error_count = 0
  /\ streak_age = -1
  /\ wdpc = IF mode = "auto" THEN "wait" ELSE "parked"
  /\ wd_due = FALSE
  /\ to_close = NoInstants
  /\ wd_events = <<>>
  /\ states = [z \in Zones |-> Idle]
  /\ ticker = TICK_INTERVAL_SEC
  /\ todo = {}
  /\ base_active = 0
  /\ started_this_tick = 0
  /\ sched_event = "none"
  /\ bus = <<>>
  /\ manual_left = MaxManual
  /\ tasks = [t \in Tasks |-> "running"]
  /\ shutdown = <<>>
  /\ sig_pending = FALSE
  /\ yesterday_open_sec = [z \in ZoneIds |-> 0]
  /\ midnight_age = -1
  /\ sleep_left = 0
  /\ poll_sec = 0
  /\ wd_wait = 0
  /\ nodes_seen = NoInstants
  /\ warned_stale = {}
  /\ hbpc = "sleep"
  /\ hb_ticker = HEARTBEAT_FIRST_CHECK_SEC
  /\ newly_stale = {}
  /\ recovered = {}
  /\ hb_events = <<>>
  /\ hb_last = [n \in NodeIds |-> "none"]
  /\ conn_out = <<>>
  /\ phys_open = [z \in Zones |-> 0]
  /\ RingInit /\ CalInit /\ TeleInit /\ VbInit

\* the daily limits of an ON, the read of the daily counters succeeding
OnCountersRead ==
  /\ OnCounters
  /\ counters_read' # "err"

NextOpen ==
  \/ \E z \in CommandIds, p \in Payloads : ManualCommand(z, p)
  \/ OnCeiling
  \/ OnCountersRead
  \/ OnLockBoard
  \/ OnOpen
  \/ OnAddPulse
  \/ OnRecord
  \/ OffBoard
  \/ OffOpened
  \/ OffAccount
  \/ OffRecord
  \/ Return
  \/ BusError
  \/ EmergencyBoard
  \/ EmergencyOpened
  \/ EmergencyShared
  \/ WatchdogScan
  \/ WatchdogLockBoard
  \/ \E z \in ZoneIds : WatchdogClose(z)
  \/ Tick

\* valve commands for any zone at any time, poll errors of the bus and
\* emergency_all_off, the watchdog and the clock, in the course of one day;
\* every read and every write of the database succeeds
SpecOpen == InitOpen /\ [][NextOpen]_vars

\* Event ring of the snapshot (state.rs)
\* ------------------------------------------------------------------------
\* a push_event that drops the new event when the ring is full
PushEventKeepsOldest(evs, e) ==
  IF Len(evs) >= MAX_EVENTS THEN evs ELSE Append(evs, e)

\* SystemState::push_event
PushEvent(evs, e) ==
  Append(IF Len(evs) >= MAX_EVENTS THEN Tail(evs) ELSE evs, e)

\* ts of the newest event ever pushed: events carry the number of the call
\* that pushed them, those pushed before the calls that are followed carry
\* numbers up to 0
LastTs == IF event_log = <<>> THEN 0 ELSE event_log[Len(event_log)].ts

\* the ring after n events recorded before the calls that are followed
Backlog(n) ==
  [i \in 1..n |-> [ts |-> i - n, kind |-> "system", detail |-> "earlier"]]

InitRing ==
  /\ HubInit /\ VbInit /\ CalInit /\ TeleInit
  /\ \E n \in RingStart : events = Backlog(n)
  /\ event_log = events

\* what every record_* function does with the ring
Record(kind, detail) ==
  /\ LastTs < RingCalls
  /\ LET e == [ts |-> LastTs + 1, kind |-> kind, detail |-> detail]
     IN /\ events' = PushEvent(events, e)
        /\ event_log' = Append(event_log, e)

\* what the record_* functions but record_valve leave alone
RecordOnly ==
  UNCHANGED <<schedVars, cfgVars, physVars, vbVars, hbVars, outVars, dayVars, supVars, fineVars, valveVars, snap_on, mqtt_connected, dbVars,
              mpc, hVars, cmd_events, cmd_watering, mqttVars, wdVars, calVars,
              teleVars>>

\* record_reading, the ring part
CallRecordReading(node) == Record("reading", node) /\ RecordOnly

\* record_node_status, the ring part
CallRecordNodeStatus(node, online) ==
  /\ Record("system", IF online THEN "node online" ELSE "node offline")
  /\ RecordOnly

\* record_valve
CallRecordValve(z, on) ==
  /\ Record("valve", IF on THEN "set ON" ELSE "set OFF")
  /\ snap_on' = RecordValve(snap_on, z, on)
  /\ UNCHANGED <<schedVars, cfgVars, physVars, vbVars, hbVars, outVars, dayVars, supVars, fineVars, valveVars, mqtt_connected, dbVars, mpc,
                 hVars, cmd_events, cmd_watering, mqttVars, wdVars, calVars,
                 teleVars>>

\* record_error
CallRecordError == Record("error", "detail") /\ RecordOnly

\* record_system
CallRecordSystem == Record("system", "detail") /\ RecordOnly

\* record_scheduler
CallRecordScheduler == Record("scheduler", "detail") /\ RecordOnly

NextRing ==
  \/ \E node \in NodeIds : CallRecordReading(node)
  \/ \E node \in NodeIds, online \in BOOLEAN : CallRecordNodeStatus(node, online)
  \/ \E z \in ZoneIds, on \in BOOLEAN : CallRecordValve(z, on)
  \/ CallRecordError
  \/ CallRecordSystem
  \/ CallRecordScheduler

\* calls of the record_* functions in any order, on an empty ring and on a
\* ring about to be full
SpecRing == InitRing /\ [][NextRing]_vars

\* ------------------------------------------------------------------------
\* Moisture of a raw reading (db.rs)
\* ------------------------------------------------------------------------
\* an f64 quotient n / d, d # 0, kept as a fraction with a positive
\* denominator
Quotient(n, d) ==
  IF d < 0 THEN [num |-> -n, den |-> -d] ELSE [num |-> n, den |-> d]

\* f64::clamp(0.0, 1.0)
Clamp01(m) ==
  IF m.num <= 0 THEN [num |-> 0, den |-> 1]
  ELSE IF m.num >= m.den THEN [num |-> 1, den |-> 1]
  ELSE m

\* a compute_moisture that does not clamp
ComputeMoistureNoClamp(raw, raw_dry, raw_wet) ==
  LET range == raw_dry - raw_wet
  IN IF range = 0 THEN [num |-> 0, den |-> 1]
     ELSE Quotient(raw_dry - raw, range)

\* compute_moisture
ComputeMoisture(raw, raw_dry, raw_wet) ==
  LET range == raw_dry - raw_wet
  IN IF range = 0 THEN [num |-> 0, den |-> 1]
     ELSE Clamp01(Quotient(raw_dry - raw, range))

InitMoisture ==
  /\ HubInit /\ VbInit /\ RingInit /\ TeleInit
  /\ cal_in \in [raw : RawInputs, raw_dry : CalPoints, raw_wet : CalPoints]
  /\ cal_out = <<>>

\* one call of compute_moisture
CallComputeMoisture ==
  /\ cal_out = <<>>
  /\ cal_out' = <<ComputeMoisture(cal_in.raw, cal_in.raw_dry, cal_in.raw_wet)>>
  /\ UNCHANGED <<schedVars, cfgVars, physVars, vbVars, hbVars, outVars, dayVars, supVars, fineVars, valveVars, snap_on, mqtt_connected, dbVars,
                 mpc, hVars, cmd_events, cmd_watering, mqttVars, wdVars,
                 ringVars, teleVars, cal_in>>

\* compute_moisture called once on arguments drawn from RawInputs and
\* CalPoints
SpecMoisture == InitMoisture /\ [][CallComputeMoisture]_vars

\* ------------------------------------------------------------------------
\* Telemetry ingest (main.rs, handle_telemetry)
\* ------------------------------------------------------------------------
\* an is_reading_plausible that has no lower limit
IsReadingPlausibleNoFloor(raw, raw_dry, raw_wet) ==
  LET hi == IF raw_wet < raw_dry THEN raw_dry ELSE raw_wet
  IN raw <= hi + SENSOR_FAILURE_MARGIN

\* is_reading_plausible
IsReadingPlausible(raw, raw_dry, raw_wet) ==
  LET lo == IF raw_wet < raw_dry THEN raw_wet ELSE raw_dry
      hi == IF raw_wet < raw_dry THEN raw_dry ELSE raw_wet
  IN raw >= lo - SENSOR_FAILURE_MARGIN /\ raw <= hi + SENSOR_FAILURE_MARGIN

\* format!("{node_id}/{}", r.sensor_id)
QualifiedId(node, sensor) == <<node, sensor>>

\* a message of n readings that starts with the readings of prefix and goes
\* on with Filler
Message(prefix, n) ==
  [i \in 1..n |-> IF i <= Len(prefix) THEN prefix[i] ELSE Filler]

InitTelemetry ==
  /\ HubInit /\ VbInit /\ RingInit /\ CalInit
  /\ \E node \in NodeIds, bytes \in PayloadSizes, json \in {"ok", "bad"},
        db \in {"ok", "err"}, k \in 0..PrefixLen :
       \E prefix \in [1..k -> Readings] :
         \E n \in {k, MAX_READINGS_PER_MESSAGE, MAX_READINGS_PER_MESSAGE + 1} :
           tele_in = [node_id |-> node, bytes |-> bytes, json |-> json,
                      readings |-> Message(prefix, n), db |-> db]
  /\ tele_out = <<>>

\* handle_telemetry: the rows insert_reading wrote and the events recorded
HandleTelemetry(msg) ==
  LET Known(r) == QualifiedId(msg.node_id, r.sensor_id) \in DOMAIN SensorMap
      Cfg(r) == SensorMap[QualifiedId(msg.node_id, r.sensor_id)]
      Plausible(r) ==
        Known(r) /\ IsReadingPlausible(r.raw, Cfg(r).raw_dry, Cfg(r).raw_wet)
      Implausible(r) ==
        Known(r) /\ ~IsReadingPlausible(r.raw, Cfg(r).raw_dry, Cfg(r).raw_wet)
      valid == SelectSeq(msg.readings, Plausible)
      failed == SelectSeq(msg.readings, Implausible)
      Row(r) ==
        [sensor_id |-> QualifiedId(msg.node_id, r.sensor_id), raw |-> r.raw,
         moisture |-> ComputeMoisture(r.raw, Cfg(r).raw_dry, Cfg(r).raw_wet)]
      Dropped(why) ==
        [rows |-> <<>>, events |-> <<[kind |-> "error", detail |-> <<why>>]>>]
  IN IF msg.bytes > MAX_TELEMETRY_PAYLOAD_BYTES
       THEN Dropped("payload too large")
     ELSE IF msg.json # "ok"
       THEN Dropped("bad telemetry json")
     ELSE IF Len(msg.readings) > MAX_READINGS_PER_MESSAGE
       THEN Dropped("too many readings")
     ELSE [rows |-> IF msg.db = "ok"
                      THEN [i \in 1..Len(valid) |-> Row(valid[i])]
                      ELSE <<>>,
           events |->
             [i \in 1..Len(failed) |->
                [kind |-> "error",
                 detail |-> <<"implausible", failed[i].sensor_id,
                              failed[i].raw>>]]
             \o (IF valid # <<>>
                   THEN <<[kind |-> "reading", detail |-> <<msg.node_id>>]>>
                   ELSE <<>>)]

\* one call of handle_telemetry
CallHandleTelemetry ==
  /\ tele_out = <<>>
  /\ tele_out' = <<HandleTelemetry(tele_in)>>
  /\ UNCHANGED <<schedVars, cfgVars, physVars, vbVars, hbVars, outVars, dayVars, supVars, fineVars, valveVars, snap_on, mqtt_connected, dbVars,
                 mpc, hVars, cmd_events, cmd_watering, mqttVars, wdVars,
                 ringVars, calVars, tele_in>>

\* handle_telemetry called once on a message drawn from the inputs above
SpecTelemetry == InitTelemetry /\ [][CallHandleTelemetry]_vars

TypeOK ==
  /\ mode \in Modes
  /\ board_lock \in {"free", "main", "wd"}
  /\ opened_lock \in {"free", "wd"}
  /\ DOMAIN valve_opened_at \subseteq ZoneIds
  /\ mpc = "select" => (hz = "none" /\ cmd_events = <<>>)
  /\ streak_age = mqtt_first_error_at
  /\ Len(bus) <= MaxBus
  /\ manual_left \in 0..MaxManual

\* ------------------------------------------------------------------------
\* Properties
\* ------------------------------------------------------------------------
AllOff(s) == \A z \in DOMAIN s : ~s[z]

\* C1: in every reachable state the number of zones whose valve is on, on
\* the valve board and in the snapshot alike, is at most
\* max_concurrent_valves.
C1_ConcurrentCeiling ==
  /\ ActiveCount(board) <= max_concurrent_valves
  /\ ActiveCount(snap_on) <= max_concurrent_valves

\* an ON was refused at the limit while as many valves as allowed were open
C1_Witness ==
  /\ mpc = "ret"
  /\ cmd_events = <<"error:valves already open">>
  /\ max_concurrent_valves > 0
  /\ ActiveCount(board) = max_concurrent_valves

\* C2 (as amended): when the read of the daily counters succeeds, the gate
\* lets an ON pass only if the open_sec it read is below
\* max_open_sec_per_day, and the add_pulse of the granted open leaves pulses
\* at most max_pulses_per_day.
C2_Step ==
  /\ (mpc = "on_counters" /\ mpc' = "on_lock_board" /\ counters_read' = "ok")
       => /\ open_sec[hz] < ZoneCfg[hz].max_open_sec_per_day
          /\ pulses[hz] < ZoneCfg[hz].max_pulses_per_day
  /\ (mpc = "on_add_pulse" /\ mpc' = "on_record" /\ counters_read = "ok")
       => pulses'[hz] <= ZoneCfg[hz].max_pulses_per_day

C2_DailyCapsWhenRead == [][C2_Step]_vars

\* a granted open, its counters read, has brought pulses up to the cap
C2_Witness ==
  /\ mpc = "on_record"
  /\ counters_read = "ok"
  /\ board[hz]
  /\ pulses[hz] = ZoneCfg[hz].max_pulses_per_day

\* C2 as stated: every granted open leaves pulses at most
\* max_pulses_per_day, and open_sec is at most max_open_sec_per_day at the
\* moment of every grant.
C2_Original ==
  /\ (mpc = "on_add_pulse" /\ hz \in Zones)
       => open_sec[hz] <= ZoneCfg[hz].max_open_sec_per_day
  /\ (mpc = "on_record" /\ hz \in Zones)
       => pulses[hz] <= ZoneCfg[hz].max_pulses_per_day

\* C3 as stated: an opened_at entry older than pulse_sec + 30 s is gone by
\* the next watchdog tick, so no entry is ever older than pulse_sec + 30 s
\* plus one watchdog interval.
C3_Original ==
  \A z \in DOMAIN valve_opened_at :
    valve_opened_at[z] <= MaxSecs(z) + WATCHDOG_INTERVAL_SEC

\* C4: from the end of the emergency_all_off of a shutdown to the exit of
\* the process every valve is OFF, the opened_at map is empty and every
\* zone of the snapshot is off.
C4_ShutdownAllOff ==
  mpc \in {"sd_backup", "sd_publish", "exited"}
    => /\ AllOff(board)
       /\ DOMAIN valve_opened_at = {}
       /\ AllOff(snap_on)

\* the process has exited on a day on which a valve had been opened
C4_Witness ==
  /\ mpc = "exited"
  /\ mode = "auto"
  /\ \E z \in Zones : pulses[z] > 0 /\ open_sec[z] = 0

\* C5: a valve goes from OFF to ON only in the ON path of the valve command
\* handler, in auto mode, for the zone of the command and past the limits
\* of the gate; pulses changes only by the add_pulse of that path.
C5_Step ==
  /\ \A z \in DOMAIN board :
       (~board[z] /\ board'[z])
         => /\ mode = "auto"
            /\ mpc = "on_lock_opened" /\ mpc' = "on_add_pulse"
            /\ hz = z
            /\ ActiveCount(snap_on) < max_concurrent_valves
            /\ counters_read \in {"ok", "err"}
  /\ pulses' # pulses
       => /\ mode = "auto"
          /\ mpc = "on_add_pulse" /\ mpc' = "on_record"
          /\ pulses' = AddPulse(pulses, hz, 1)

C5_OnlyHandlerOpens == [][C5_Step]_vars

\* the handler has just opened the valve of a pulse the scheduler started
C5_Witness ==
  /\ mpc = "on_add_pulse"
  /\ states[hz].st = "Watering"
  /\ board[hz]
  /\ valve_opened_at[hz] = 0

\* C6 as stated: an ON command for a zone that is on is not granted: the
\* handler neither re-stamps the zone's opened_at entry nor increments its
\* pulses.
C6_Step ==
  (/\ hz \in DOMAIN snap_on /\ snap_on[hz]
   /\ mpc \in {"on_lock_opened", "on_add_pulse"} /\ mpc' # mpc)
    => /\ valve_opened_at' = valve_opened_at
       /\ pulses' = pulses

C6_Original == [][C6_Step]_vars

\* C7: an ON that meets the concurrent limit, the pulses cap or the
\* open_sec cap is refused: the handler returns, the valve board, the
\* opened_at map, the snapshot and both counters are unchanged, and the one
\* event of the command is the error naming the reason.
Refused(e) ==
  /\ mpc' = "ret"
  /\ cmd_events' = <<e>>
  /\ UNCHANGED <<board, valve_opened_at, snap_on, pulses, open_sec>>

C7_Step ==
  /\ (/\ mpc = "on_ceiling" /\ mpc' # mpc
      /\ ~(hz \in DOMAIN snap_on /\ snap_on[hz])
      /\ ActiveCount(snap_on) >= max_concurrent_valves)
       => Refused("error:valves already open")
  /\ (/\ mpc = "on_counters" /\ mpc' # mpc /\ counters_read' = "ok"
      /\ pulses[hz] >= ZoneCfg[hz].max_pulses_per_day)
       => Refused("error:pulses today")
  /\ (/\ mpc = "on_counters" /\ mpc' # mpc /\ counters_read' = "ok"
      /\ pulses[hz] < ZoneCfg[hz].max_pulses_per_day
      /\ open_sec[hz] >= ZoneCfg[hz].max_open_sec_per_day)
       => Refused("error:open today")

C7_RefusalChangesNothing == [][C7_Step]_vars

\* an ON was refused for the open_sec cap, the pulses cap not being reached
C7_Witness ==
  /\ mpc = "ret"
  /\ cmd_events = <<"error:open today">>
  /\ ~board[hz]
  /\ pulses[hz] < ZoneCfg[hz].max_pulses_per_day

\* C8: once the read of the daily counters has failed, the ON is never
\* refused: the handler goes on to open the valve, stamps opened_at and
\* marks the zone on; the concurrent limit had been passed before and is
\* kept.
C8_FailOpen ==
  counters_read = "err"
    => /\ mpc \in {"on_lock_board", "on_lock_opened", "on_add_pulse",
                   "on_record", "ret"}
       /\ mpc \in {"on_lock_board", "on_lock_opened"}
            => (snap_on[hz] \/ ActiveCount(snap_on) < max_concurrent_valves)
       /\ mpc \in {"on_add_pulse", "on_record", "ret"}
            => /\ board[hz]
               /\ hz \in DOMAIN valve_opened_at
               /\ valve_opened_at[hz] = 0
       /\ mpc = "ret" => (snap_on[hz] /\ cmd_events = <<"valve:ON">>)
       /\ ActiveCount(board) <= max_concurrent_valves

\* a failed read has let an ON through beyond max_pulses_per_day
C8_Witness ==
  /\ counters_read = "err"
  /\ mpc = "ret"
  /\ snap_on[hz]
  /\ pulses[hz] > ZoneCfg[hz].max_pulses_per_day

\* C9: in monitor mode the scheduler publishes nothing and every zone stays
\* Idle; the valve board, the opened_at map and the daily counters never
\* change, and a valve command only records the monitor mode error.
C9_MonitorNeverActuates ==
  mode = "monitor"
    => /\ bus = <<>>
       /\ \A z \in Zones : states[z] = Idle
       /\ AllOff(board)
       /\ DOMAIN valve_opened_at = {}
       /\ AllOff(snap_on)
       /\ \A z \in ZoneIds : pulses[z] = 0 /\ open_sec[z] = 0
       /\ hz # "none" => (mpc = "ret" /\ cmd_events = <<"error:monitor mode">>)

\* in monitor mode the scheduler has recorded a low moisture alert and a
\* valve command has been turned down
C9_Witness ==
  /\ mode = "monitor"
  /\ sched_event = "low moisture alert"
  /\ mpc = "ret"
  /\ cmd_events = <<"error:monitor mode">>

\* C10: the emergency_all_off of the Err branch runs only when the first
\* poll error since the last incoming packet other than Disconnect is at
\* least MQTT_GRACE_PERIOD_SEC old.
C10_GraceRespected ==
  (eao_ret = "mqtt_error" /\ mpc \in {"eao_board", "eao_opened", "eao_shared"})
    => streak_age >= MQTT_GRACE_PERIOD_SEC

\* the grace period has expired on a second poll error with a valve open
C10_Witness ==
  /\ eao_ret = "mqtt_error"
  /\ mpc = "eao_board"
  /\ mqtt_error_count >= 2
  /\ \E z \in Zones : board[z]

\* C19: the scheduler state of every zone starts Idle, and the only
\* changes of state it ever makes are Idle to Watering, Watering to
\* Soaking and Soaking to Idle.
C19_Step ==
  \A z \in Zones :
    states'[z].st # states[z].st
      => <<states[z].st, states'[z].st>>
           \in {<<"Idle", "Watering">>, <<"Watering", "Soaking">>,
                <<"Soaking", "Idle">>}

C19_Transitions ==
  /\ \A z \in Zones : states[z] = Idle
  /\ [][C19_Step]_vars

\* a zone is back to Idle after a pulse and a soak that did not reach the
\* target moisture
C19_Witness ==
  /\ sched_event = "soak done"
  /\ \E z \in Zones : states[z] = Idle /\ pulses[z] > 0

\* C20: in auto mode handle_idle moves a zone from Idle to Watering only if
\* the bus is connected, the zone is not on, fewer than
\* max_concurrent_valves zones are on, the latest reading exists and is not
\* stale, the counters of the day are read and pulses and open_sec are
\* below their caps, the mean of the newest readings is below min_moisture
\* and the publish of ON succeeded; if any of these fails the zone stays
\* Idle and nothing is published.
C20_Conditions(z, in) ==
  /\ mqtt_connected
  /\ ~snap_on[z]
  /\ ActiveCount(snap_on) < max_concurrent_valves
  /\ in.latest = "ok" /\ in.fresh = "fresh"
  /\ in.counters = "ok"
  /\ pulses[z] < ZoneCfg[z].max_pulses_per_day
  /\ open_sec[z] < ZoneCfg[z].max_open_sec_per_day
  /\ in.avg = "ok" /\ in.moisture < ZoneCfg[z].min_moisture
  /\ in.pub = "ok"

C20_Step ==
  \A z \in Zones :
    (mode = "auto" /\ states[z].st = "Idle" /\ z \in todo /\ z \notin todo')
      => \A in \in SchedInputs :
           SchedZone(z, in)
             => /\ states'[z].st = "Watering"
                     => /\ C20_Conditions(z, in)
                        /\ bus' = Append(bus, [zone |-> z, payload |-> "ON"])
                /\ ~C20_Conditions(z, in)
                     => /\ states'[z] = Idle
                        /\ bus' = bus

C20_IdleToWatering == [][C20_Step]_vars

\* a zone has just gone from Idle to Watering and its ON is on the bus
C20_Witness ==
  /\ mode = "auto"
  /\ sched_event = "pulse started"
  /\ \E z \in Zones :
       /\ states[z] = Watering(0)
       /\ bus # <<>>
       /\ bus[Len(bus)] = [zone |-> z, payload |-> "ON"]

\* the zone has an opened_at entry if and only if its on flag is true
OnIffOpenedAt(z) ==
  (z \in DOMAIN valve_opened_at) <=> (z \in DOMAIN snap_on /\ snap_on[z])

\* C15 (as amended): whenever the main task is neither inside
\* handle_valve_command nor inside emergency_all_off, every zone has an
\* opened_at entry if and only if its on flag in the snapshot is true.
C15_OnIffOpenedAtAtRest ==
  mpc \in {"select", "ret", "err_sleep", "sd_backup", "sd_publish", "exited"}
    => \A z \in ZoneIds : OnIffOpenedAt(z)

\* between two commands a zone is on and has had its entry for some time
C15_Witness ==
  /\ mpc = "select"
  /\ \E z \in DOMAIN valve_opened_at :
       /\ z \in DOMAIN snap_on
       /\ snap_on[z]
       /\ valve_opened_at[z] > 0

\* C15 as stated: in every reachable state every zone has an opened_at
\* entry if and only if its on flag is true.
C15_Original == \A z \in ZoneIds : OnIffOpenedAt(z)

\* the happy cycle of zone z2 (pulse_sec 30): auto mode, no publisher but
\* the scheduler, the other zone untouched
C14_Scenario ==
  /\ mode = "auto"
  /\ manual_left = MaxManual
  /\ pulses["z1"] = 0 /\ ~snap_on["z1"] /\ states["z1"] = Idle

\* the scheduler's ON for z2 has been handled
C14_AfterOneTick ==
  /\ C14_Scenario
  /\ states["z2"].st = "Watering"
  /\ states["z2"].t < ZoneCfg["z2"].pulse_sec
  /\ bus = <<>> /\ mpc = "select"

\* the scheduler's OFF for z2, published 30 s after the ON, has been handled
C14_AfterPulse ==
  /\ C14_Scenario
  /\ states["z2"].st = "Soaking"
  /\ mpc = "ret" /\ hz = "z2" /\ hdur = ZoneCfg["z2"].pulse_sec
  /\ cmd_events = <<"valve:OFF">>

\* C14 as stated: after one scheduler tick the zone is Watering with
\* pulses_today = 1 and its valve on; after the pulse the zone is Soaking,
\* open_sec_today is 30 and exactly one watering event row exists, with
\* reason scheduler and result ok.
C14_Original ==
  /\ C14_AfterOneTick
       => /\ pulses["z2"] = 1
          /\ board["z2"] /\ snap_on["z2"]
  /\ C14_AfterPulse
       => /\ open_sec["z2"] = 30
          /\ pulses["z2"] = 1
          /\ ~board["z2"] /\ ~snap_on["z2"]
          /\ cmd_watering
               = <<[zone_id |-> "z2", duration |-> 30,
                    reason |-> "scheduler", result |-> "ok"]>>

\* C16: handle_telemetry inserts a reading only if the payload has at most
\* 4096 bytes, parses as JSON and carries at most 32 readings, the sensor id
\* qualified with the node id is configured and raw lies within
\* [min(dry, wet) - 3000, max(dry, wet) + 3000]; a message that is too large
\* or malformed inserts nothing and records one error event; of a message
\* that is accepted every configured reading out of that range is skipped
\* with an error event of its own and, the database being up, every
\* configured reading within it is inserted.
C16_InRange(node, r) ==
  /\ <<node, r.sensor_id>> \in DOMAIN SensorMap
  /\ LET dry == SensorMap[<<node, r.sensor_id>>].raw_dry
         wet == SensorMap[<<node, r.sensor_id>>].raw_wet
     IN /\ r.raw >= Min(dry, wet) - 3000
        /\ r.raw <= (IF dry > wet THEN dry ELSE wet) + 3000

C16_OutOfRange(node, r) ==
  /\ <<node, r.sensor_id>> \in DOMAIN SensorMap
  /\ ~C16_InRange(node, r)

C16_IngestChecks ==
  tele_out # <<>> =>
    LET msg == tele_in
        out == tele_out[1]
        accepted == /\ msg.bytes <= 4096
                    /\ msg.json = "ok"
                    /\ Len(msg.readings) <= 32
        errors == {i \in 1..Len(out.events) : out.events[i].kind = "error"}
        good == {j \in 1..Len(msg.readings) :
                   C16_InRange(msg.node_id, msg.readings[j])}
        bad == {j \in 1..Len(msg.readings) :
                  C16_OutOfRange(msg.node_id, msg.readings[j])}
    IN /\ \A i \in 1..Len(out.rows) :
            /\ accepted
            /\ \E j \in good :
                 /\ out.rows[i].sensor_id
                      = <<msg.node_id, msg.readings[j].sensor_id>>
                 /\ out.rows[i].raw = msg.readings[j].raw
       /\ (msg.bytes > 4096 \/ msg.json # "ok")
            => /\ out.rows = <<>>
               /\ Len(out.events) = 1
               /\ out.events[1].kind = "error"
       /\ accepted
            => /\ Cardinality(errors) = Cardinality(bad)
               /\ msg.db = "ok" => Len(out.rows) = Cardinality(good)

\* a message whose first reading was skipped as implausible and whose second
\* reading was inserted
C16_Witness ==
  /\ tele_out # <<>>
  /\ Len(tele_in.readings) = 2
  /\ C16_OutOfRange(tele_in.node_id, tele_in.readings[1])
  /\ Len(tele_out[1].rows) = 1
  /\ tele_out[1].rows[1].raw = tele_in.readings[2].raw
  /\ tele_out[1].events[1].kind = "error"

\* C17: after any sequence of record_* calls the event ring holds at most
\* 200 events, and they are the most recent events pushed, in the order in
\* which they were pushed.
C17_RingHoldsNewest ==
  /\ Len(events) <= 200
  /\ Len(events) = Min(Len(event_log), 200)
  /\ events = SubSeq(event_log, Len(event_log) - Len(events) + 1,
                     Len(event_log))

\* the ring is full and its oldest event has been evicted
C17_Witness ==
  /\ Len(events) = MAX_EVENTS
  /\ Len(event_log) > MAX_EVENTS
  /\ events[MAX_EVENTS].ts = RingCalls

\* C18: compute_moisture returns a value in [0, 1]: 0 when raw_dry =
\* raw_wet, 0 when raw is at or beyond the dry end point, 1 when raw is at
\* or beyond the wet end point, and (raw_dry - raw) / (raw_dry - raw_wet)
\* in between, whichever of the two end points is the larger.
C18_MoistureClamped ==
  cal_out # <<>> =>
    LET m == cal_out[1]
        raw == cal_in.raw
        dry == cal_in.raw_dry
        wet == cal_in.raw_wet
        beyondDry == (dry > wet /\ raw >= dry) \/ (dry < wet /\ raw <= dry)
        beyondWet == (dry > wet /\ raw <= wet) \/ (dry < wet /\ raw >= wet)
    IN /\ m.den > 0 /\ 0 <= m.num /\ m.num <= m.den
       /\ dry = wet => m.num = 0
       /\ beyondDry => m.num = 0
       /\ beyondWet => m.num = m.den
       /\ (dry # wet /\ ~beyondDry /\ ~beyondWet)
            => m.num * (dry - wet) = (dry - raw) * m.den

\* a raw value strictly between the end points of an inverted calibration
C18_Witness ==
  /\ cal_out # <<>>
  /\ cal_in.raw_wet > cal_in.raw_dry
  /\ 0 < cal_out[1].num /\ cal_out[1].num < cal_out[1].den

\* C12 as stated: once the scheduler task or the watchdog task has ended,
\* the process ends only by leaving the main loop, performing
\* emergency_all_off (all valves OFF, opened_at map empty, snapshot zones
\* off) and exiting with code 0.
C12_Original ==
  (/\ \E t \in CriticalTasks : tasks[t] # "running"
   /\ ~ProcessRuns)
    => /\ ExitCode = 0
       /\ AllOff(board)
       /\ DOMAIN valve_opened_at = {}
       /\ AllOff(snap_on)

\* C13 as stated: after the supervisor has logged the end of a best-effort
\* task the main loop keeps running, every later iteration of it
\* included: the main task does not end in that loop.
C13_Original ==
  (\E t \in BestEffortTasks : tasks[t] = "joined")
    => mpc # "panicked"

\* C11 as stated: with bus errors continuous since t = 0, the
\* emergency_all_off of the Err branch does not run before t = 60 s, and
\* past t = 61 s it has run if a valve was open: all valves are OFF, the
\* opened_at map is empty and all snapshot zones are off.
C11_Original ==
  /\ (mpc \in {"eao_board", "eao_opened", "eao_shared"}
        /\ eao_ret = "mqtt_error")
       => streak_age >= MQTT_GRACE_PERIOD_SEC
  /\ streak_age > MQTT_GRACE_PERIOD_SEC + 1
       => /\ AllOff(board)
          /\ DOMAIN valve_opened_at = {}
          /\ AllOff(snap_on)

\* C21: within one scheduler tick in auto mode a zone goes from Idle to
\* Watering only while base_active, the number of zones on in the snapshot
\* when the tick began, plus the zones already started in the tick is below
\* max_concurrent_valves, whatever the snapshot holds by then; a tick that
\* began with max_concurrent_valves zones on publishes no ON.
C21_Step ==
  /\ \A z \in Zones :
       (/\ mode = "auto" /\ z \in todo /\ z \notin todo'
        /\ states[z].st = "Idle" /\ states'[z].st = "Watering")
         => started_this_tick + 1 <= max_concurrent_valves - base_active
  /\ (/\ mode = "auto" /\ todo # {}
      /\ base_active >= max_concurrent_valves
      /\ Len(bus') > Len(bus))
       => bus'[Len(bus')].payload # "ON"

C21_TickCeiling == [][C21_Step]_vars

\* a zone was started in this tick, its ON has not reached the snapshot
\* yet, and an Idle zone is still to be evaluated
C21_Witness ==
  /\ mode = "auto"
  /\ started_this_tick = max_concurrent_valves
  /\ base_active = 0
  /\ ActiveCount(snap_on) = 0
  /\ mqtt_connected
  /\ \E z \in todo : states[z] = Idle

\* C22: an evaluation of a Watering zone less than pulse_sec after it
\* started leaves it as it is and publishes nothing; from pulse_sec on it
\* publishes OFF and makes the zone Soaking until soak_min minutes later,
\* unless the publish fails: then the zone stays Watering with its start
\* instant, nothing is published, and the next evaluation tries again.
C22_Step ==
  \A z \in Zones :
    (states[z].st = "Watering" /\ z \in todo /\ z \notin todo')
      => \A in \in SchedInputs :
           SchedZone(z, in)
             => IF states[z].t < ZoneCfg[z].pulse_sec \/ in.pub # "ok"
                  THEN states'[z] = states[z] /\ bus' = bus
                  ELSE /\ states'[z] = Soaking(60 * ZoneCfg[z].soak_min)
                       /\ bus' = Append(bus, [zone |-> z, payload |-> "OFF"])

C23_Step ==
  \A z \in Zones :
    /\ (states[z].st = "Soaking" /\ z \in todo /\ z \notin todo')
         => \A in \in SchedInputs :
              SchedZone(z, in)
                => /\ bus' = bus
                   /\ states'[z] = IF states[z].t > 0 THEN states[z] ELSE Idle
    /\ (states'[z].st = "Watering" /\ states[z].st # "Watering")
         => states[z].st = "Idle"

C23_SoakingToIdle == [][C23_Step]_vars

\* the soak of a zone is over and the average has reached the target: the
\* zone is Idle again and nothing is on the bus
C23_Witness ==
  /\ sched_event = "target reached"
  /\ bus = <<>>
  /\ \E z \in Zones : states[z] = Idle /\ pulses[z] > 0 /\ z \notin todo

\* what C24 says of the steps of the OFF path, the reasons a watering event
\* may carry being given
C24_Step(reasons) ==
  /\ (mpc = "off_board" /\ mpc' # mpc)
       => board' = BoardSet(board, hz, FALSE)
  /\ (mpc = "off_opened" /\ mpc' # mpc /\ hz \in DOMAIN valve_opened_at)
       => /\ hdur' = valve_opened_at[hz]
          /\ hz \notin DOMAIN valve_opened_at'
          /\ mpc' = "off_account"
  /\ (mpc = "off_account" /\ mpc' # mpc)
       => /\ open_sec' = AddOpenSeconds(open_sec, hz, hdur)
          /\ pulses' = pulses
          /\ Len(cmd_watering') = 1
          /\ cmd_watering'[1].zone_id = hz
          /\ cmd_watering'[1].reason \in reasons
          /\ cmd_watering'[1].result \in {"ok", "force_closed", "safety_block"}
          /\ mpc' = "off_record"
  /\ (mpc = "off_opened" /\ mpc' # mpc /\ hz \notin DOMAIN valve_opened_at)
       => /\ mpc' = "off_record"
          /\ UNCHANGED <<pulses, open_sec, cmd_watering>>
          /\ cmd_watering = <<>>
  /\ (mpc = "off_record" /\ mpc' # mpc)
       => /\ hz \in DOMAIN snap_on => ~snap_on'[hz]
          /\ UNCHANGED <<pulses, open_sec, cmd_watering>>
          /\ ~board[hz]
          /\ hz \notin DOMAIN valve_opened_at

\* C24 as stated: an OFF command in auto mode drives the valve OFF and marks
\* the zone off; with an opened_at entry the elapsed time is added to
\* open_sec, the entry is removed and exactly one watering event is
\* inserted, its reason one of scheduler, manual_command, watchdog_close and
\* its result one of ok, force_closed, safety_block; without an entry no
\* counter changes and no watering event is inserted.
C24_Original ==
  [][C24_Step({"scheduler", "manual_command", "watchdog_close"})]_vars

\* the text of an event has the word
Contains(words, w) == \E i \in 1..Len(words) : words[i] = w

\* C25: an iteration of the force-close loop drives the valve of its zone
\* OFF, removes the zone's opened_at entry, marks the zone off, adds the
\* elapsed time to the zone's open_sec and records one valve event and one
\* error event containing "force-closed"; the zones the watchdog collects
\* at a tick are those open for more than pulse_sec + 30 s, and every other
\* zone is left as it is.
C25_Step ==
  /\ (wdpc = "wait" /\ wd_due /\ ~wd_due')
       => /\ DOMAIN to_close'
               = {z \in DOMAIN valve_opened_at :
                    valve_opened_at[z] > ZoneCfg[z].pulse_sec + 30}
          /\ UNCHANGED <<board, valve_opened_at, snap_on, open_sec>>
  /\ (wdpc = "closing" /\ to_close' # to_close)
       => \E z \in DOMAIN to_close :
            /\ to_close' = MapRemove(to_close, z)
            /\ ~board'[z]
            /\ z \notin DOMAIN valve_opened_at'
            /\ ~snap_on'[z]
            /\ open_sec'[z] = Min(open_sec[z] + valve_opened_at[z], OpenSecCap(z))
            /\ Len(wd_events') = Len(wd_events) + 2
            /\ \E i, j \in {Len(wd_events) + 1, Len(wd_events) + 2} :
                 /\ wd_events'[i].kind = "valve"
                 /\ wd_events'[i].zone = z
                 /\ ~wd_events'[i].on
                 /\ wd_events'[j].kind = "error"
                 /\ Contains(wd_events'[j].words, "force-closed")
            /\ \A y \in Zones \ {z} :
                 /\ board'[y] = board[y]
                 /\ snap_on'[y] = snap_on[y]
                 /\ open_sec'[y] = open_sec[y]
                 /\ (y \in DOMAIN valve_opened_at')
                      = (y \in DOMAIN valve_opened_at)

MainHoldsNone == board_lock # "main"

\* the watchdog holds neither mutex
WatchdogHoldsNone == board_lock # "wd" /\ opened_lock # "wd"

\* the steps of the main task that await a database call, and the states
\* in which it awaits the bus or a timer
C26_MainStep ==
  /\ (mpc \in {"on_counters", "on_add_pulse", "off_account", "sd_backup"}
        /\ mpc' # mpc)
       => MainHoldsNone
  /\ mpc \in {"select", "err_sleep", "sd_publish"} => MainHoldsNone

\* the steps of the watchdog that await a database call (add_open_seconds
\* in an iteration of the force-close loop), and the state in which it
\* awaits its ticker
C26_WatchdogStep ==
  /\ (wdpc = "closing" /\ to_close' # to_close) => WatchdogHoldsNone
  /\ wdpc = "wait" => WatchdogHoldsNone

\* C26 as stated: no task awaits a database call, a bus call or a timer
\* while it holds the valve board mutex or the opened_at mutex.
C26_Original == [][C26_MainStep /\ C26_WatchdogStep]_vars

\* C27: the final backup and the offline publish are made only after
\* emergency_all_off has turned every valve off, emptied the opened_at map
\* and marked every zone off, and in that order: the backup, only if a
\* path is configured, then the retained publish of offline on status/hub,
\* then the exit with status 0; whether the backup or the publish fails,
\* the next step of the shutdown is the same.
C27_Order ==
  /\ shutdown # <<>>
       => /\ mpc \in {"sd_publish", "exited"}
          /\ AllOff(board)
          /\ DOMAIN valve_opened_at = {}
          /\ AllOff(snap_on)
  /\ mpc = "sd_publish"
       => \/ shutdown = <<>>
          \/ \E ok \in BOOLEAN : shutdown = <<Backup(ok)>>
  /\ mpc = "exited"
       => /\ ExitCode = 0
          /\ \E ok \in BOOLEAN :
               \/ shutdown = <<PublishOffline(ok)>>
               \/ \E b \in BOOLEAN : shutdown = <<Backup(b), PublishOffline(ok)>>

C27_Step ==
  /\ (mpc' = "sd_backup" /\ mpc # "sd_backup")
       => (mpc = "eao_shared" /\ eao_ret = "shutdown")
  /\ (mpc = "sd_backup" /\ mpc' # mpc) => mpc' = "sd_publish"
  /\ (mpc = "sd_publish" /\ mpc' # mpc) => mpc' = "exited"
  /\ (mpc = "select" /\ eao_ret' = "shutdown") => mpc' = "eao_board"

C27_ShutdownOrder == []C27_Order /\ [][C27_Step]_vars

\* the process has exited on a day on which a valve had been opened, the
\* final backup and the offline publish having both failed
C27_Witness ==
  /\ mpc = "exited"
  /\ shutdown = <<Backup(FALSE), PublishOffline(FALSE)>>
  /\ \E z \in Zones : pulses[z] > 0 /\ open_sec[z] = 0

\* the main task has left the select loop and emergency_all_off has run
C28_AllOffDone ==
  /\ mpc \in {"sd_backup", "sd_publish", "exited"}
  /\ AllOff(board) /\ DOMAIN valve_opened_at = {} /\ AllOff(snap_on)

\* with a signal delivered, the branch select! takes is that of the signal
C28_Bias ==
  (/\ sig_pending
   /\ mpc = "select"
   /\ \/ <<mpc, hVars, cmd_events, mqttVars>>' # <<mpc, hVars, cmd_events, mqttVars>>
      \/ \E t \in Tasks : tasks[t] # "joined" /\ tasks'[t] = "joined")
    => (mpc' = "eao_board" /\ eao_ret' = "shutdown" /\ tasks' = tasks)

\* C28 as stated: once a signal has been delivered the main task
\* eventually leaves the select loop and performs emergency_all_off,
\* whatever else is pending, and an iteration of the loop that finds the
\* signal and another branch ready takes the branch of the signal.
C28_Original ==
  /\ sig_pending ~> C28_AllOffDone
  /\ [][C28_Bias]_vars

\* what C29 says of a close that adds elapsed seconds of zone z to the
\* counters, the valve having been opened before midnight
C29_Split(z, elapsed) ==
  (midnight_age # -1 /\ elapsed > midnight_age)
    => /\ yesterday_open_sec'[z]
            = yesterday_open_sec[z] + (elapsed - midnight_age)
       /\ open_sec'[z] = Min(open_sec[z] + midnight_age, OpenSecCap(z))

\* C29 as stated: when a valve opened on one UTC day is closed on the
\* next, by an OFF command or by the watchdog, the seconds it was open
\* before midnight are added to the open_sec of the opening day and the
\* seconds after midnight to the open_sec of the closing day.
C29_Step ==
  /\ (mpc = "off_account" /\ mpc' # mpc) => C29_Split(hz, hdur)
  /\ \A z \in DOMAIN to_close :
       (wdpc = "closing" /\ z \notin DOMAIN to_close')
         => C29_Split(z, to_close[z])

C29_Original == [][C29_Step]_vars

\* no zone id without configuration has an opened_at entry or a counter of
\* the day that was touched
C30_NothingKept ==
  \A z \in ZoneIds \ Zones :
    /\ z \notin DOMAIN valve_opened_at
    /\ pulses[z] = 0
    /\ open_sec[z] = 0

\* the steps of the main task on a command for such an id leave the valve
\* board as it is and do not end the main task
C30_Step ==
  (hz \in ZoneIds \ Zones /\ mpc' # mpc)
    => /\ board' = board
       /\ mpc' \notin {"panicked", "exited"}

\* C30 as stated: a valve command for a zone_id that is not configured is
\* dropped: the valve board is unchanged, no opened_at entry is created for
\* that id, no daily counter is touched and the event loop keeps running.
C30_Original == []C30_NothingKept /\ [][C30_Step]_vars

\* the checks of handle_idle the bus connection and the ceiling are no part
\* of: the newest reading is stale, a daily cap is reached, or the average
\* is not below min_moisture
C31_Skips(z, in) ==
  \/ in.fresh = "stale"
  \/ in.counters = "ok" /\ pulses[z] >= ZoneCfg[z].max_pulses_per_day
  \/ in.counters = "ok" /\ open_sec[z] >= ZoneCfg[z].max_open_sec_per_day
  \/ in.avg = "ok" /\ in.moisture >= ZoneCfg[z].min_moisture

C31_Step ==
  \A z \in Zones :
    (/\ mode = "monitor" /\ states[z].st = "Idle"
     /\ z \in todo /\ z \notin todo')
      => \A in \in SchedInputs :
           SchedZone(z, in)
             => /\ states'[z] = Idle
                /\ bus' = bus
                /\ C31_Skips(z, in) => sched_event' = "none"
                /\ (in = Nominal(in.moisture) /\ ~C31_Skips(z, in))
                     => sched_event' = "low moisture alert"

\* C31: in monitor mode the Idle evaluation of a zone skips the zone when
\* the newest reading is stale, when a daily cap of today is reached or when
\* the average of the last readings is at least min_moisture, whatever the
\* bus connection and the number of open valves; otherwise it records one
\* low moisture alert; the zone stays Idle and nothing is published.
C31_Original == [][C31_Step]_vars

\* the events of kind k the current check recorded about node n
C32_Events(evs, k, n) == {i \in 1..Len(evs) : evs[i] = [kind |-> k, node |-> n]}

C32_Step ==
  \* the check collects the stale nodes whose latest event is not stale and
  \* the fresh nodes whose latest event is stale
  /\ (hbpc = "wait" /\ hb_ticker = 0 /\ hb_ticker' # 0)
       => /\ newly_stale' = {n \in DOMAIN nodes_seen :
                               IsStale(n) /\ hb_last[n] # "stale"}
          /\ recovered' = {n \in DOMAIN nodes_seen :
                             ~IsStale(n) /\ hb_last[n] = "stale"}
          /\ hb_last' = hb_last
  \* and records one event about each of them
  /\ (hbpc = "record" /\ hbpc' = "wait")
       => \A n \in NodeIds :
            /\ Cardinality(C32_Events(hb_events', "stale", n))
                 = IF n \in newly_stale THEN 1 ELSE 0
            /\ Cardinality(C32_Events(hb_events', "recovered", n))
                 = IF n \in recovered THEN 1 ELSE 0
            /\ n \in newly_stale
                 => hb_last[n] # "stale" /\ hb_last'[n] = "stale"
            /\ n \in recovered
                 => hb_last[n] = "stale" /\ hb_last'[n] = "recovered"
            /\ n \notin newly_stale \cup recovered => hb_last'[n] = hb_last[n]
  \* nothing is recorded between the checks
  /\ hb_last' # hb_last => hbpc = "record"
  \* no step of the monitor touches a valve
  /\ <<warned_stale, hbpc, hb_ticker, newly_stale, recovered, hb_events,
       hb_last>>' # <<warned_stale, hbpc, hb_ticker, newly_stale, recovered,
                      hb_events, hb_last>>
       => UNCHANGED <<board, valve_opened_at, snap_on>>

\* C32: at each check the heartbeat monitor records one stale event about
\* every node that is stale and whose latest event is not stale, and one
\* recovered event about every node that is fresh and whose latest event is
\* stale, so that the events of a node alternate, starting with stale; it
\* changes no valve, no opened_at entry and no zone on flag.
C32_HeartbeatAlternates == [][C32_Step]_vars

\* a check has just recorded that one node recovered and that the other
\* went stale
C32_Witness ==
  /\ hbpc = "wait"
  /\ \E n, o \in NodeIds :
       /\ hb_last[n] = "recovered" /\ hb_last[o] = "stale"
       /\ C32_Events(hb_events, "recovered", n) # {}
       /\ C32_Events(hb_events, "stale", o) # {}

\* a stale node is heard from again: its stale event has been recorded, or
\* is about to be
C32_EveryEpisode ==
  \A n \in DOMAIN nodes_seen :
    (IsStale(n) /\ nodes_seen'[n] = 0)
      => hb_last[n] = "stale" \/ n \in newly_stale

\* C32 as stated: a stale event is recorded exactly once each time a node
\* goes from fresh to stale, a recovered event exactly once each time it
\* returns, the events of a node alternate, and no valve is touched.
C32_Original == [][C32_Step /\ C32_EveryEpisode]_vars

\* a request without its outcome
C33_Step ==
  \* the ConnAck arm
  /\ (mpc = "select" /\ cmd_events' = <<"system:mqtt connected">>)
       => /\ conn_out' = ConnAckRequests
          /\ mqtt_connected'
  \* nothing but the ConnAck arm marks the bus connected
  /\ (~mqtt_connected /\ mqtt_connected')
       => (mpc = "select" /\ cmd_events' = <<"system:mqtt connected">>)
  \* the Disconnect arm
  /\ (mpc = "select" /\ cmd_events' = <<"system:mqtt disconnected">>)
       => ~mqtt_connected'
  \* the Err branch
  /\ mqtt_error_count' = mqtt_error_count + 1 => ~mqtt_connected'
  \* emergency_all_off
  /\ (mpc = "eao_shared" /\ mpc' # mpc) => ~mqtt_connected'

\* C33: every ConnAck makes the hub ask for the subscriptions to
\* tele/+/reading, valve/+/set and status/node/+ and for the retained publish
\* of online on status/hub, and marks the bus connected; a Disconnect
\* packet, a poll error and emergency_all_off mark it not connected, and only
\* a ConnAck marks it connected again.
C33_ConnAck == [][C33_Step]_vars

\* a ConnAck has been handled while a valve is open: the four requests
\* were made and the bus is marked connected
C33_Witness ==
  /\ mpc = "ret"
  /\ conn_out = ConnAckRequests
  /\ mqtt_connected
  /\ \E z \in DOMAIN board : board[z]

\* a board as built has every registered zone off
C34_New ==
  vb_call.op = "new" => \A z \in DOMAIN vb.cells : ~IsOn(vb, z)

C34_Step ==
  /\ vb_call'.op = "set"
       => LET z == vb_call'.zone
              on == vb_call'.on
          IN /\ DOMAIN vb'.cells = DOMAIN vb.cells
             /\ z \in DOMAIN vb.cells
                  => /\ IsOn(vb', z) = on
                     /\ \A y \in DOMAIN vb.cells \ {z} :
                          vb'.cells[y] = vb.cells[y]
                     /\ VbSet(vb', z, on) = vb'
             /\ z \notin DOMAIN vb.cells => vb' = vb
             /\ vb_call = vb_call' => vb' = vb
  /\ vb_call'.op \in {"all_off", "drop"}
       => /\ DOMAIN vb'.cells = DOMAIN vb.cells
          /\ \A z \in DOMAIN vb.cells : ~IsOn(vb', z)

\* C34: a valve board as built has every registered zone off; set(zone, on)
\* on a registered zone makes that zone on or off as asked and leaves the
\* other zones as they were, and a second identical set changes nothing; set
\* on a zone that is not registered changes nothing and adds no entry; after
\* all_off and after the drop every registered zone is off.
C34_ValveBoard == []C34_New /\ [][C34_Step]_vars

\* an active-low board of two relays: the second one has just been set on
\* while the first one is on
C34_Witness ==
  /\ vb.build = "gpio" /\ vb.active_low
  /\ vb_call = [op |-> "set", zone |-> "z2", on |-> TRUE]
  /\ vb.cells = [z \in Zones |-> "low"]

\* C35: while the reads of the daily counters succeed, no valve is on, in
\* the course of a day, for longer than max_open_sec_per_day plus one pulse
\* at its longest (pulse_sec, the 30 s margin and one 5 s tick of the
\* watchdog), whatever commands, bus errors and emergency_all_off occur.
C35_Original == \A z \in DOMAIN phys_open : phys_open[z] <= PhysBound(z)

\* the handler holds the Valve Board mutex and waits for the opened_at mutex
C36_MainHoldsBoardWaitsOpened ==
  mpc = "on_lock_opened" /\ board_lock = "main" /\ opened_lock # "free"

\* the watchdog holds the opened_at mutex and waits for the Valve Board mutex
C36_WatchdogHoldsOpenedWaitsBoard ==
  wdpc = "lock_board" /\ opened_lock = "wd" /\ board_lock # "free"

\* C36: the watchdog and the handler of valve commands never wait for each
\* other: in no reachable state does one hold the opened_at mutex and wait
\* for the Valve Board mutex while the other holds the Valve Board mutex and
\* waits for the opened_at mutex.
C36_Original ==
  ~(C36_MainHoldsBoardWaitsOpened /\ C36_WatchdogHoldsOpenedWaitsBoard)

\* the steps that end an open interval or add to open_sec, but for those of
\* the paths in exempt (positions of the main task)
C37_Step(exempt) ==
  \* the entry of a zone goes: its age is added to open_sec in the same
  \* step, or the OFF handler takes it along to its add_open_seconds
  /\ \A z \in DOMAIN valve_opened_at :
       (z \notin DOMAIN valve_opened_at' /\ mpc \notin exempt)
         => \/ /\ wdpc = "closing"
               /\ open_sec' = AddOpenSeconds(open_sec, z, valve_opened_at[z])
            \/ /\ mpc = "off_opened" /\ mpc' = "off_account"
               /\ hz = z /\ hdur' = valve_opened_at[z]
               /\ open_sec' = open_sec
  \* the OFF handler adds what it took along, once
  /\ (mpc = "off_account" /\ mpc' # mpc)
       => /\ open_sec' = AddOpenSeconds(open_sec, hz, hdur)
          /\ mpc' = "off_record"
  \* and open_sec changes in no other step
  /\ open_sec' # open_sec
       => \/ mpc = "off_account" /\ mpc' # mpc
          \/ wdpc = "closing"
               /\ DOMAIN valve_opened_at' # DOMAIN valve_opened_at

\* C37: the time a valve was open is added to the open_sec of its zone
\* exactly once, whether it is closed by an OFF command, by the watchdog, by
\* emergency_all_off when the grace period expires, or by the watchdog while
\* an OFF command for the same zone is being handled.
C37_Original == [][C37_Step({})]_vars

\* the ON the scheduler published for z is neither on its way nor being
\* handled
C38_Processed(z) ==
  /\ \A i \in 1..Len(bus) : bus[i] # [zone |-> z, payload |-> "ON"]
  /\ mpc \in {"select", "ret"}

\* C38: whenever a zone is Watering for the scheduler and the ON the
\* scheduler published for it has been handled, the valve of the zone is on;
\* a zone whose ON the safety gate refused is not Watering.
C38_Original ==
  \A z \in Zones :
    (states[z].st = "Watering" /\ C38_Processed(z) /\ eao_ret = "none")
      => board[z]

\* C39: while the scheduler's publishes succeed and are delivered without
\* delay, the watchdog never finds a valve overdue, and an opened_at entry
\* is removed by the handling of the scheduler's OFF only, at an age of at
\* most pulse_sec + WATCHDOG_MARGIN_SEC
C39_Step ==
  \A z \in DOMAIN valve_opened_at :
    z \notin DOMAIN valve_opened_at' =>
      /\ mpc = "off_opened"
      /\ hz = z
      /\ valve_opened_at[z] <= MaxSecs(z)

C39_SchedulerCloses ==
  /\ [](wdpc \in {"wait", "parked"} /\ to_close = NoInstants)
  /\ [][C39_Step]_vars

\* the OFF of a pulse of pulse_sec = TICK_INTERVAL_SEC that ran one tick
\* longer is being handled: the entry was taken at the watchdog's limit
C39_Witness ==
  /\ mpc = "off_account"
  /\ hz = "z2"
  /\ hdur = MaxSecs("z2")
  /\ wdpc = "wait"

\* C40: whenever neither the valve board mutex nor the opened_at mutex is
\* held, every valve that is on has an opened_at entry, also while the
\* handler waits for add_pulse before it marks the zone on in the snapshot
C40_OpenValvesTracked ==
  (board_lock = "free" /\ opened_lock = "free") =>
    \A z \in DOMAIN board : board[z] => z \in DOMAIN valve_opened_at

\* the handler is suspended on add_pulse: the valve is on, both mutexes are
\* free, the snapshot still shows the zone off, the entry is there
C40_Witness ==
  /\ mpc = "on_add_pulse"
  /\ board_lock = "free"
  /\ opened_lock = "free"
  /\ hz \in DOMAIN board
  /\ board[hz]
  /\ ~snap_on[hz]
  /\ hz \in DOMAIN valve_opened_at

====
